---- MODULE Spec2Model ----
(***************************************************************************)
(* Model of the MKR5 master-side controller (class MKR5Controller of       *)
(* src/main_fixed.cpp, with the helpers of src/types.h).                   *)
(*                                                                         *)
(* Bytes are naturals 0..255, byte vectors are sequences.  The source      *)
(* indexes vectors from 0; At(v, i) is v[i] of the source.  The serial     *)
(* primitives are those of the POSIX build (the #else branches).           *)
(* Status descriptions are Russian string literals in the source; the      *)
(* model carries ASCII renderings of them, one per literal.                *)
(***************************************************************************)
EXTENDS Integers, Sequences, FiniteSets, TLC

VARIABLES
    isConnected,   \* MKR5Controller::isConnected
    serialPort,    \* MKR5Controller::serialPort: "open" when it names the open
                   \* descriptor of the port, "none" when it is -1 or the
                   \* number of a descriptor that was closed
    txNumber,      \* MKR5Controller::txNumber (uint8_t)
    op,            \* the public operation in progress, "none" between calls
    phase,         \* the call site of the exchange in progress
    pc,            \* "idle", "call" (about to start phase), "recv" (inside
                   \* receiveData's loop), "ret" (receiveData has returned)
    curAddr,       \* the address argument of the operation in progress
    line,          \* bytes the transport has still to deliver to read()
    unread,        \* how many of the first bytes of line the port has
                   \* received and holds unread; the rest is on its way
    offered,       \* what the transport held when the receive began
    buffer,        \* receiveData: buffer
    maxBytes,      \* receiveData: maxBytes
    timeoutMs,     \* receiveData: timeoutMs
    totalElapsed,  \* receiveData: currentTime - startTime at the loop head, ms
    silenceElapsed,\* receiveData: currentTime - lastDataTime at the loop head
    gaps,          \* reads of this receive that had to wait for their byte
    resp,          \* the vector receiveData returned (the caller's response)
    lastPacket,    \* the packet the last createDataPacket call returned
    lastSent,      \* the frame the last successful sendData wrote
    nData,         \* createDataPacket calls made by the packet bench
    pollResult,    \* <<>> or <<value returned by the last pollPump>>
    lastStatus,    \* <<>> or <<PumpStatus returned by the last getPumpStatus>>
    arg,           \* input of the function under check (function benches)
    ret            \* <<>> before the function ran, <<result>> after

ctlVars == <<isConnected, serialPort, txNumber, lastPacket>>

callVars == <<op, phase, pc, curAddr>>

rxVars == <<line, unread, offered, buffer, maxBytes, timeoutMs, totalElapsed,
            silenceElapsed, gaps, resp>>

outVars == <<lastSent, pollResult, lastStatus>>

benchVars == <<arg, ret, nData>>

vars == <<ctlVars, callVars, rxVars, outVars, benchVars>>

(***************************************************************************)
(* Protocol constants.                                                     *)
(***************************************************************************)
PUMP_ADDRESS_MIN == 80
PUMP_ADDRESS_MAX == 111
STOP_FLAG == 250
ETX == 3

POLL == 1
ACK == 2
NACK == 3
DATA == 4

RETURN_STATUS == 0
RESET_NOZZLE == 1
RETURN_FILLING_INFO == 5

NOZZLE_STATUS == 0
FILLING_INFO == 2
ERROR_CODE == 1

IDLE == 0

(***************************************************************************)
(* Fixed-width integer arithmetic of the source.                           *)
(***************************************************************************)
Byte == 0..255

\* the values of a uint16_t, the type of the running CRC
UInt16 == 0..65535

U8(x) == x % 256

U16(x) == x % 65536

Pow2Table ==
    <<1, 2, 4, 8, 16, 32, 64, 128, 256, 512, 1024, 2048, 4096, 8192, 16384,
      32768, 65536>>

\* 1 << n, for the shift counts the source uses
Pow2(n) == Pow2Table[n + 1]

Shl(x, n) == x * Pow2(n)

Shr(x, n) == x \div Pow2(n)

\* bit k of x
Bit(x, k) == (x \div Pow2(k)) % 2

\* a & b and a ^ b on the low n bits, bit by bit
RECURSIVE AndUpTo(_, _, _)
AndUpTo(a, b, k) ==
    IF k < 0 THEN 0
    ELSE (Bit(a, k) * Bit(b, k)) * Pow2(k) + AndUpTo(a, b, k - 1)

RECURSIVE XorUpTo(_, _, _)
XorUpTo(a, b, k) ==
    IF k < 0 THEN 0
    ELSE ((Bit(a, k) + Bit(b, k)) % 2) * Pow2(k) + XorUpTo(a, b, k - 1)

\* the two operators on 4-bit operands, tabulated
AndNibble == [x \in 0..15 |-> [y \in 0..15 |-> AndUpTo(x, y, 3)]]

XorNibble == [x \in 0..15 |-> [y \in 0..15 |-> XorUpTo(x, y, 3)]]

\* nibble k of x
Nibble(x, k) == (x \div Pow2(4 * k)) % 16

\* the operands of the source's bitwise operators are at most 16 bits wide
BitAnd(a, b) ==
    AndNibble[Nibble(a, 0)][Nibble(b, 0)]
    + 16 * AndNibble[Nibble(a, 1)][Nibble(b, 1)]
    + 256 * AndNibble[Nibble(a, 2)][Nibble(b, 2)]
    + 4096 * AndNibble[Nibble(a, 3)][Nibble(b, 3)]

BitXor(a, b) ==
    XorNibble[Nibble(a, 0)][Nibble(b, 0)]
    + 16 * XorNibble[Nibble(a, 1)][Nibble(b, 1)]
    + 256 * XorNibble[Nibble(a, 2)][Nibble(b, 2)]
    + 4096 * XorNibble[Nibble(a, 3)][Nibble(b, 3)]

\* a | b = (a ^ b) + (a & b)
BitOr(a, b) == BitXor(a, b) + BitAnd(a, b)

\* v[i] of the source (0-based).
At(v, i) == v[i + 1]

\* std::vector<uint8_t>(v.begin(), v.begin() + n)
Prefix(v, n) == SubSeq(v, 1, n)

(***************************************************************************)
(* A uint32_t is kept as its two 16-bit halves <<high, low>>: the sums and  *)
(* products of the halves stay within the integers of the model checker,    *)
(* and the value wraps at 2^32 as the C++ type does.                        *)
(***************************************************************************)
U32(n) == <<(n \div 65536) % 65536, n % 65536>>

U32Add(a, b) ==
    LET low == a[2] + b[2]
    IN  <<(a[1] + b[1] + (low \div 65536)) % 65536, low % 65536>>

\* a * k for a factor k below 2^15
U32Mul(a, k) ==
    LET low == a[2] * k
    IN  <<(a[1] * k + (low \div 65536)) % 65536, low % 65536>>

(***************************************************************************)
(* bcdToDecimal (src/types.h): the loop runs from the last byte to the      *)
(* first; result and multiplier are uint32_t.                              *)
(***************************************************************************)
RECURSIVE BcdLoop(_, _, _, _)
BcdLoop(bcd, i, result, multiplier) ==
    IF i < 0 THEN result
    ELSE LET byte == At(bcd, i)
             low == U32Add(result, U32Mul(multiplier, BitAnd(byte, 15)))
             tens == U32Mul(multiplier, 10)
             high == U32Add(low, U32Mul(tens, BitAnd(Shr(byte, 4), 15)))
         IN  BcdLoop(bcd, i - 1, high, U32Mul(tens, 10))

\* mutant: the first byte is taken for the least significant one
bcdToDecimal_firstByteLowest(bcd) ==
    BcdLoop([i \in 1..Len(bcd) |-> bcd[Len(bcd) + 1 - i]], Len(bcd) - 1,
            U32(0), U32(1))

bcdToDecimal(bcd) == BcdLoop(bcd, Len(bcd) - 1, U32(0), U32(1))

(***************************************************************************)
(* decimalToBcd (src/types.h): value is a uint32_t; each pass takes two    *)
(* decimal digits off its low end and stores them in result[bytes - 1 - i].*)
(***************************************************************************)
\* value % 10 and value / 10 of a uint32_t
U32Mod10(a) == ((a[1] % 10) * 65536 + a[2]) % 10

U32Div10(a) == <<a[1] \div 10, ((a[1] % 10) * 65536 + a[2]) \div 10>>

\* one byte of the result: (highNibble << 4) | lowNibble, stored as uint8_t
BcdByte(value) ==
    U8(BitOr(Shl(U32Mod10(U32Div10(value)), 4), U32Mod10(value)))

RECURSIVE DecLoop(_, _, _, _)
DecLoop(value, bytes, i, result) ==
    IF ~(i < bytes) THEN result
    ELSE DecLoop(U32Div10(U32Div10(value)), bytes, i + 1,
                 [result EXCEPT ![bytes - i] = BcdByte(value)])

\* mutant: the digits are stored from the first byte on
decimalToBcd_lowFirst(value, bytes) ==
    LET r == DecLoop(value, bytes, 0, [i \in 1..bytes |-> 0])
    IN  [i \in 1..bytes |-> r[bytes + 1 - i]]

decimalToBcd(value, bytes) ==
    DecLoop(value, bytes, 0, [i \in 1..bytes |-> 0])

(***************************************************************************)
(* calculateCRC16: CRC16, polynomial 0x8408, initial value 0, LSB first.   *)
(***************************************************************************)
CRC_POLY == 33800

\* mutant: the register is shifted left, most significant bit first
CrcShift_msbFirst(crc) ==
    IF crc >= 32768 THEN BitXor(U16(Shl(crc, 1)), 4129) ELSE U16(Shl(crc, 1))

\* one pass of the inner loop body
CrcShift(crc) ==
    IF crc % 2 # 0 THEN BitXor(Shr(crc, 1), CRC_POLY) ELSE Shr(crc, 1)

RECURSIVE CrcBits(_, _)
CrcBits(crc, n) ==
    IF crc \in UInt16 /\ n > 0 THEN CrcBits(CrcShift(crc), n - 1) ELSE crc

\* one pass of the outer loop body: crc ^= byte, then 8 shifts
CrcByte(crc, byte) == CrcBits(U16(BitXor(crc, byte)), 8)

\* the outer loop over data[lo..hi], in order: first the lower half of the
\* range, then the upper half on the value the lower half left
RECURSIVE CrcRange(_, _, _, _)
CrcRange(crc, data, lo, hi) ==
    IF crc \notin UInt16 \/ lo > hi THEN crc
    ELSE IF lo = hi THEN CrcByte(crc, data[lo])
    ELSE CrcRange(CrcRange(crc, data, lo, (lo + hi) \div 2),
                  data, (lo + hi) \div 2 + 1, hi)

calculateCRC16(data) == CrcRange(0, data, 1, Len(data))

\* crc & 0xFF and (crc >> 8) & 0xFF, as pushed by createDataPacket
CrcLo(crc) == BitAnd(crc, 255)

CrcHi(crc) == BitAnd(Shr(crc, 8), 255)

(***************************************************************************)
(* Frame construction.                                                     *)
(***************************************************************************)
createPollPacket(address) == <<address, 129, STOP_FLAG>>

\* createPollPacket of the first revision (src/main.cpp): control byte 0x01
createPollPacketRev1(address) == <<address, 1, STOP_FLAG>>

\* uint8_t ctrl = 0x80 | ((txNumber & 0x0F) << 4) | DATA
DataCtrl(tx) == U8(BitOr(BitOr(128, Shl(BitAnd(tx, 15), 4)), DATA))

\* mutant: the nozzle number is not masked
DataOpc_noMask(command, nozzle) == U8(BitOr(Shl(command, 4), nozzle))

\* uint8_t opc = (command << 4) | (nozzle & 0x0F)
DataOpc(command, nozzle) == U8(BitOr(Shl(command, 4), BitAnd(nozzle, 15)))

\* address .. last data byte: the span the CRC is computed over
DataBody(address, command, nozzle, data, tx) ==
    <<address, DataCtrl(tx), U8(1 + Len(data)), DataOpc(command, nozzle)>> \o data

\* the packet createDataPacket builds when txNumber is tx
BuildPacket(address, command, nozzle, data, tx) ==
    LET body == DataBody(address, command, nozzle, data, tx)
        crc == calculateCRC16(body)
    IN  body \o <<CrcLo(crc), CrcHi(crc), ETX, STOP_FLAG>>

\* the packets of the requests without payload to nozzle 1 that the sessions
\* make, built once
BuiltRequests ==
    [address \in PUMP_ADDRESS_MIN..PUMP_ADDRESS_MAX,
     command \in {RETURN_STATUS, RESET_NOZZLE, RETURN_FILLING_INFO},
     tx \in 1..15 |-> BuildPacket(address, command, 1, <<>>, tx)]

\* the packet createDataPacket returns when txNumber is tx
DataPacket(address, command, nozzle, data, tx) ==
    IF /\ nozzle = 1
       /\ data = <<>>
       /\ <<address, command, tx>> \in DOMAIN BuiltRequests
    THEN BuiltRequests[address, command, tx]
    ELSE BuildPacket(address, command, nozzle, data, tx)

createDataPacket(address, command, nozzle, data) ==
    DataPacket(address, command, nozzle, data, txNumber)

\* createDataPacket of the first revision (src/main.cpp): the control byte is
\* the literal 0x14, and the class has no transaction counter
createDataPacketRev1(address, command, nozzle, data) ==
    LET body == <<address, 20, U8(1 + Len(data)), DataOpc(command, nozzle)>>
                    \o data
        crc == calculateCRC16(body)
    IN  body \o <<CrcLo(crc), CrcHi(crc), ETX, STOP_FLAG>>

\* mutant: the wrap test is dropped, the counter runs through 0
NextTx_wrap0(tx) == BitAnd(tx + 1, 15)

\* txNumber = (txNumber == 0x0F) ? 1 : txNumber + 1
NextTx(tx) == IF tx = 15 THEN 1 ELSE U8(tx + 1)

\* uint8_t ctrl = 0x80 | ((txNum & 0x0F) << 4) | ACK
createAckPacket(address, txNum) ==
    <<address, U8(BitOr(BitOr(128, Shl(BitAnd(txNum, 15), 4)), ACK)), STOP_FLAG>>

(***************************************************************************)
(* Decoding of a reply.                                                    *)
(***************************************************************************)
\* mutant: a default-constructed status counts as valid
DefaultStatus_valid ==
    [address |-> 0, status |-> 0, nozzleOn |-> FALSE, rfTagSensed |-> FALSE,
     errorFlag |-> FALSE, statusDescription |-> "", isValid |-> TRUE]

\* PumpStatus(): the default-constructed record
DefaultStatus ==
    [address |-> 0, status |-> 0, nozzleOn |-> FALSE, rfTagSensed |-> FALSE,
     errorFlag |-> FALSE, statusDescription |-> "", isValid |-> FALSE]

\* FillingInfo(): the default-constructed record. The constructor is the
\* only code that gives a FillingInfo its fields: no function of either
\* revision assigns amount, volume or isValid.
DefaultFillingInfo == [amount |-> U32(0), volume |-> U32(0), isValid |-> FALSE]

\* the statusMap lookup, with the fallback for a code the map lacks
getStatusDescription(status) ==
    CASE status = 0 -> "Idle"
      [] status = 1 -> "Ready for delivery"
      [] status = 2 -> "Reset"
      [] status = 3 -> "Authorized"
      [] status = 4 -> "Filling"
      [] status = 5 -> "Paused"
      [] status = 6 -> "Nozzle disabled"
      [] status = 7 -> "Nozzle stopped"
      [] status = 8 -> "Not programmed"
      [] OTHER -> "Unknown status"

\* (ctrl >> 4) & 0x0F, the TX# field as parseResponse reads it
CtrlTxNum(ctrl) == BitAnd(Shr(ctrl, 4), 15)

\* ctrl & 0x0F
CtrlCode(ctrl) == BitAnd(ctrl, 15)

\* the branch "SIZE-OPC-CRC-ETX-STOP": bytes 3 and 4 are ETX and the stop flag
IsSizeOpcShape(response) ==
    /\ Len(response) >= 5
    /\ At(response, 3) = ETX
    /\ At(response, 4) = STOP_FLAG

ParseSizeOpc(response) ==
    LET opc == At(response, 1)
        responseType == BitAnd(Shr(opc, 4), 15)
    IN  [address |-> 80, status |-> IDLE, nozzleOn |-> FALSE,
         rfTagSensed |-> FALSE,
         errorFlag |-> (responseType = ERROR_CODE),
         statusDescription |->
            IF responseType = NOZZLE_STATUS THEN "Nozzle status (from OPC)"
            ELSE IF responseType = ERROR_CODE THEN "Error code"
            ELSE "Unknown response type: " \o ToString(responseType),
         isValid |-> TRUE]

\* the branch for a buffer that starts with the pattern FA 50 81
IsEchoShape(response) ==
    /\ Len(response) >= 3
    /\ At(response, 0) = 250
    /\ At(response, 1) = 80
    /\ At(response, 2) = 129

ParseEcho ==
    [DefaultStatus EXCEPT !.address = 80, !.status = IDLE,
        !.statusDescription = "Device answers POLL", !.isValid = TRUE]

\* the branch for a 3-byte answer (ACK, NACK, POLL or unknown)
ParseShort(response) ==
    [DefaultStatus EXCEPT !.address = At(response, 0), !.status = IDLE,
        !.statusDescription = "Status undefined (short answer)",
        !.isValid = TRUE]

\* mutant: the standard branch asks for the terminator
IsStatusData_needsStop(response) ==
    /\ CtrlCode(At(response, 1)) = DATA
    /\ Len(response) >= 7
    /\ Len(response) >= 6 + At(response, 2)
    /\ BitAnd(Shr(At(response, 3), 4), 15) = NOZZLE_STATUS
    /\ At(response, 2) >= 2
    /\ response[Len(response)] = STOP_FLAG

\* the conditions under which the standard branch fills the status in
IsStatusData(response) ==
    /\ CtrlCode(At(response, 1)) = DATA
    /\ Len(response) >= 7
    /\ Len(response) >= 6 + At(response, 2)
    /\ BitAnd(Shr(At(response, 3), 4), 15) = NOZZLE_STATUS
    /\ At(response, 2) >= 2

ParseStatusData(response) ==
    LET statusByte == At(response, 4)
    IN  [address |-> At(response, 0),
         status |-> BitAnd(statusByte, 15),
         nozzleOn |-> BitAnd(statusByte, 16) # 0,
         rfTagSensed |-> BitAnd(statusByte, 32) # 0,
         errorFlag |-> BitAnd(statusByte, 64) # 0,
         statusDescription |-> getStatusDescription(BitAnd(statusByte, 15)),
         isValid |-> TRUE]

parseResponse(response) ==
    IF IsSizeOpcShape(response) THEN ParseSizeOpc(response)
    ELSE IF IsEchoShape(response) THEN ParseEcho
    ELSE IF Len(response) >= 3
         THEN IF Len(response) = 3 THEN ParseShort(response)
              ELSE IF IsStatusData(response) THEN ParseStatusData(response)
              ELSE [DefaultStatus EXCEPT !.address = At(response, 0)]
    ELSE DefaultStatus

(***************************************************************************)
(* The indices of the response that parseResponse reads, in the order of   *)
(* its tests.  Peek gives the byte a read finds; a read outside the vector *)
(* is undefined in C++, here it shows as an index outside 0..size-1 in     *)
(* the set of reads.                                                       *)
(***************************************************************************)
Peek(v, i) == IF i \in 0..(Len(v) - 1) THEN v[i + 1] ELSE 0

\* v[i] == 0xFA && v[i + 1] == 0x50 && v[i + 2] == 0x81, left to right
PatternReads(v, i) ==
    {i} \cup (IF Peek(v, i) = 250
              THEN {i + 1} \cup (IF Peek(v, i + 1) = 80 THEN {i + 2} ELSE {})
              ELSE {})

\* mutant: the long-packet branch indexes without looking at the size
StatusDataReads_unchecked(response) ==
    IF CtrlCode(Peek(response, 1)) = DATA
    THEN {2, 3} \cup
         (IF BitAnd(Shr(Peek(response, 3), 4), 15) = NOZZLE_STATUS
             /\ Peek(response, 2) >= 2
          THEN {4} ELSE {})
    ELSE {}

\* the branch for long packets: response[2], then [3], then [4]
StatusDataReads(response) ==
    IF CtrlCode(Peek(response, 1)) = DATA /\ Len(response) >= 7
    THEN {2} \cup
         (IF Len(response) >= 6 + Peek(response, 2)
          THEN {3} \cup
               (IF BitAnd(Shr(Peek(response, 3), 4), 15) = NOZZLE_STATUS
                   /\ Peek(response, 2) >= 2
                THEN {4} ELSE {})
          ELSE {})
    ELSE {}

parseResponseReads(response) ==
    LET size == Len(response)
        printed == {i \in 0..19 : i < size}
        firstFive == IF size >= 5 THEN 0..4 ELSE {}
        echo == IF size >= 3 THEN PatternReads(response, 0) ELSE {}
        standard ==
            IF size >= 3
            THEN {0, 1} \cup
                 (IF size = 3 THEN {0} ELSE StatusDataReads(response))
            ELSE {}
    IN  printed \cup firstFive \cup
        (IF IsSizeOpcShape(response) THEN {}
         ELSE echo \cup (IF IsEchoShape(response) THEN {} ELSE standard))

\* mutant: an empty response is taken for the answer of a device
getPumpStatusResult_emptyIsAnswer(response) ==
    IF response = <<>> THEN ParseEcho ELSE parseResponse(response)

\* getPumpStatus: if (response.empty()) return PumpStatus(); else parse
getPumpStatusResult(response) ==
    IF response = <<>> THEN DefaultStatus ELSE parseResponse(response)

\* parseStatusResponse of the first revision (src/main.cpp): a chain of early
\* returns; the CRC is computed over response.begin() .. response.end() - 3
parseStatusResponse(response) ==
    IF Len(response) < 7 THEN DefaultStatus
    ELSE IF response[Len(response)] # 250 THEN DefaultStatus
    ELSE IF BitAnd(At(response, 1), 15) # DATA
         \/ Len(response) < 6 + At(response, 2)
         \/ Shr(At(response, 3), 4) # NOZZLE_STATUS
         \/ calculateCRC16(Prefix(response, Len(response) - 3)) # 0
         \/ ~(At(response, 2) >= 2)
    THEN [DefaultStatus EXCEPT !.address = At(response, 0)]
    ELSE ParseStatusData(response)

\* the indices parseStatusResponse reads: back(), [0], [1], [2], [3], the
\* CRC span begin() .. end() - 3, [size - 3], [size - 2] and [4]
parseStatusResponseReads(response) ==
    LET size == Len(response)
        dataSize == Peek(response, 2)
    IN  IF size < 7 THEN {}
        ELSE {size - 1} \cup
             (IF Peek(response, size - 1) # 250 THEN {}
              ELSE {0, 1} \cup
                   (IF BitAnd(Peek(response, 1), 15) # DATA THEN {}
                    ELSE {2} \cup
                         (IF size < 6 + dataSize THEN {}
                          ELSE {3} \cup
                               (IF Shr(Peek(response, 3), 4) # NOZZLE_STATUS
                                THEN {}
                                ELSE 0..(size - 4) \cup {size - 3, size - 2}
                                     \cup
                                     (IF calculateCRC16(
                                             Prefix(response, size - 3)) = 0
                                         /\ dataSize >= 2
                                      THEN {4} ELSE {})))))

(***************************************************************************)
(* The transport: what a pump (or the line) may put on the wire after a    *)
(* frame was written to address a.                                         *)
(***************************************************************************)
ECHO == <<250, 80, 129>>

RECURSIVE Repeat(_, _)
Repeat(s, k) == IF k = 0 THEN <<>> ELSE s \o Repeat(s, k - 1)

\* a DATA frame as the wire format lays it out, with its CRC
ReplyFrame(address, ctrl, opc, payload) ==
    LET body == <<address, ctrl, U8(1 + Len(payload)), opc>> \o payload
        crc == calculateCRC16(body)
    IN  body \o <<CrcLo(crc), CrcHi(crc), ETX, STOP_FLAG>>

\* frame f with its low CRC byte altered
BadCrc(f) ==
    SubSeq(f, 1, Len(f) - 4) \o <<BitXor(f[Len(f) - 3], 1)>>
        \o SubSeq(f, Len(f) - 2, Len(f))

MaxEchoRepeats == 4

EchoReplies == {Repeat(ECHO, k) : k \in 3..MaxEchoRepeats}

\* the addresses at which a pump is wired to the line
Pumps == {80, 82}

\* a status reply of pump a: slave DATA frame, nozzle 1, status byte 0x64
StatusFrame(a) == ReplyFrame(a, 20, 1, <<100>>)

\* a filling reply of pump a: slave DATA frame, nozzle 1, BCD amount 123456
\* and volume 7890
FillingFrame(a) == ReplyFrame(a, 20, 33, <<0, 18, 52, 86, 0, 0, 120, 144>>)

\* the poll frame of pump a as the line echoes it, repeated
AddressedEcho(a) == Repeat(<<STOP_FLAG, a, 129>>, 3)

\* what pump a, or the line on its behalf, may answer to a poll frame
PollReplies ==
    [a \in Pumps |->
        { <<>>, <<a, 18, 250>>, Repeat(ECHO, 3), AddressedEcho(a) }]

\* what pump a, or the line on its behalf, may answer to a data frame
DataReplies ==
    [a \in Pumps |->
        { <<>>,
          <<a, 18, 250>>,
          <<250, 80, 129, 0>>,
          <<1, 95, 55, 3, 250>>,
          StatusFrame(a),
          BadCrc(StatusFrame(a)) }]

\* what pump a may answer to a RETURN_FILLING_INFO request
FillingReplies ==
    [a \in Pumps |-> { <<>>, <<a, 18, 250>>, FillingFrame(a) }]

\* nothing answers at an address without a pump
Replies(a, code) ==
    IF a \notin Pumps THEN {<<>>}
    ELSE IF code = POLL THEN PollReplies[a]
    ELSE DataReplies[a]

\* what may follow a data frame with command cmd
CommandReplies(a, cmd) ==
    IF a \in Pumps /\ cmd = RETURN_FILLING_INFO THEN FillingReplies[a]
    ELSE Replies(a, DATA)

\* what may follow an acknowledgement
AckReplies(a) == { <<>>, <<a, 18, 250>> }

(***************************************************************************)
(* receiveData.                                                            *)
(***************************************************************************)
QUIET_MS == 50
VTIME == 5
STOP_CONFIRM_MS == 20
MIN_DATA_FRAME == 8
PATTERN_MIN_LEN == 9
PATTERN_REPEATS == 3

\* the read timeout: VTIME is in tenths of a second
ReadTimeoutMs == VTIME * 100

\* a byte is there at once, or arrives while read() blocks
ByteGaps == {0, 60}

MaxGaps == 1

\* elapsed times are compared with thresholds only: keep them up to just above
SatTotal(t) == IF t > timeoutMs THEN timeoutMs + 1 ELSE t

SatSilence(t) == IF t > QUIET_MS THEN QUIET_MS + 1 ELSE t

IsPatternAt(buf, i) ==
    /\ At(buf, i) = 250
    /\ At(buf, i + 1) = 80
    /\ At(buf, i + 2) = 129

\* patternCount: for (i = 0; i <= size - 3; i += 3), break at the first miss
RECURSIVE PatternCountFrom(_, _)
PatternCountFrom(buf, i) ==
    IF i <= Len(buf) - 3 /\ i + 2 < Len(buf) /\ IsPatternAt(buf, i)
    THEN 1 + PatternCountFrom(buf, i + 3)
    ELSE 0

\* cutPoint: the first i < size - 2 with the pattern at i, 0 when there is none
RECURSIVE CutPointFrom(_, _)
CutPointFrom(buf, i) ==
    IF ~(i < Len(buf) - 2) THEN 0
    ELSE IF IsPatternAt(buf, i) THEN i
    ELSE CutPointFrom(buf, i + 1)

\* the indices the patternCount loop reads from i on
RECURSIVE CountReads(_, _)
CountReads(buf, i) ==
    IF i <= Len(buf) - 3 /\ i + 2 < Len(buf)
    THEN PatternReads(buf, i) \cup
         (IF IsPatternAt(buf, i) THEN CountReads(buf, i + 3) ELSE {})
    ELSE {}

\* the indices the cutPoint loop reads from i on
RECURSIVE CutReads(_, _)
CutReads(buf, i) ==
    IF ~(i < Len(buf) - 2) THEN {}
    ELSE PatternReads(buf, i) \cup
         (IF IsPatternAt(buf, i) THEN {} ELSE CutReads(buf, i + 1))

\* the indices the pattern scan reads in a buffer that just got a byte
PatternScanReads(buf) ==
    IF Len(buf) >= PATTERN_MIN_LEN
    THEN CountReads(buf, 0) \cup
         (IF PatternCountFrom(buf, 0) >= PATTERN_REPEATS
          THEN CutReads(buf, 0) ELSE {})
    ELSE {}

\* mutant: the collapse keeps the whole buffer
Collapse_keepAll(buf) == buf

\* buffer.resize(cutPoint) or buffer.resize(3)
Collapse(buf) ==
    LET cutPoint == CutPointFrom(buf, 0)
    IN  IF cutPoint > 0 THEN Prefix(buf, cutPoint) ELSE Prefix(buf, 3)

\* the two tests made after a byte was appended
StopFlagSeen(buf) == Len(buf) >= MIN_DATA_FRAME /\ buf[Len(buf)] = STOP_FLAG

PatternSeen(buf) ==
    /\ Len(buf) >= PATTERN_MIN_LEN
    /\ PatternCountFrom(buf, 0) >= PATTERN_REPEATS

\* mutant: receiveData does not look at isConnected
RecvGoesOn_anyway ==
    /\ Len(buffer) < maxBytes
    /\ ~(totalElapsed > timeoutMs)
    /\ ~(Len(buffer) > 0 /\ silenceElapsed > QUIET_MS)

\* the buffer as the pattern scan leaves it
PatternScan(buf) == IF PatternSeen(buf) THEN Collapse(buf) ELSE buf

\* mutant: the loop test lets one byte more into the buffer
RecvGoesOn_oneMore ==
    /\ isConnected
    /\ Len(buffer) <= maxBytes
    /\ ~(totalElapsed > timeoutMs)
    /\ ~(Len(buffer) > 0 /\ silenceElapsed > QUIET_MS)

\* mutant: the silence test does not ask for a byte in the buffer
RecvGoesOn_silenceOnEmpty ==
    /\ isConnected
    /\ Len(buffer) < maxBytes
    /\ ~(totalElapsed > timeoutMs)
    /\ ~(silenceElapsed > QUIET_MS)

\* the test before the loop (if (!isConnected) return {}) and the tests at
\* the head of the loop
RecvGoesOn ==
    /\ isConnected
    /\ Len(buffer) < maxBytes
    /\ ~(totalElapsed > timeoutMs)
    /\ ~(Len(buffer) > 0 /\ silenceElapsed > QUIET_MS)

\* the bytes of v after its first n
Drop(v, n) == SubSeq(v, n + 1, Len(v))

\* serialPort names the open descriptor: read, write and tcflush reach the
\* port.  On -1 or on the number of a closed descriptor they fail.
PortOpen == serialPort = "open"

\* tcflush(serialPort, TCIOFLUSH), skipped when not connected: of the bytes
\* `held` the n that the port holds unread are dropped, the bytes that have
\* not reached the port yet are not.  On a lost descriptor tcflush fails and
\* drops nothing.
clearBuffers(held, n) == IF isConnected /\ PortOpen THEN Drop(held, n) ELSE held

\* how many bytes the port holds after clearBuffers
Flushed(n) == IF isConnected /\ PortOpen THEN 0 ELSE n

\* what sendData may return on a connected controller: write() may fall
\* short on an open port, and fails on a lost descriptor
SendOutcomes == IF PortOpen THEN BOOLEAN ELSE {FALSE}

\* a pump answers a frame only while at most MaxLate bytes of earlier
\* answers are left, on their way to the port or held by it
MaxLate == 0

\* what may follow a frame that was written while `left` was there
Answers(left, replies) == IF Len(left) <= MaxLate THEN replies ELSE {<<>>}

\* the locals of a receiveData(mb, to) call that begins
ReceiveLocals(mb, to) ==
    /\ buffer' = <<>>
    /\ maxBytes' = mb
    /\ timeoutMs' = to
    /\ totalElapsed' = 0
    /\ silenceElapsed' = 0
    /\ gaps' = 0
    /\ resp' = <<>>

\* mutant: what the port held before the call is still there
BeginExchange_unflushed(mb, to, reply) ==
    /\ line' = line \o reply
    /\ unread' = unread
    /\ offered' = line'
    /\ ReceiveLocals(mb, to)

\* clearBuffers, sendData and the receiveData call of one exchange: the
\* bytes the port held are dropped, the bytes still on their way stay and
\* `reply` follows them
BeginExchange(mb, to, reply) ==
    /\ line' = clearBuffers(line, unread) \o reply
    /\ unread' = 0
    /\ offered' = line'
    /\ ReceiveLocals(mb, to)

\* a receiveData call begins with `held` on the transport
BeginReceive(mb, to, held) ==
    /\ line' = held
    /\ unread' = unread
    /\ offered' = held
    /\ buffer' = <<>>
    /\ maxBytes' = mb
    /\ timeoutMs' = to
    /\ totalElapsed' = 0
    /\ silenceElapsed' = 0
    /\ gaps' = 0
    /\ resp' = <<>>

\* no receiveData call is made; `held` is what stays on the transport and
\* the port holds the first n bytes of it
NoReceive(held, n) ==
    /\ line' = held
    /\ unread' = n
    /\ offered' = <<>>
    /\ buffer' = <<>>
    /\ resp' = <<>>
    /\ maxBytes' = 0
    /\ timeoutMs' = 0
    /\ totalElapsed' = 0
    /\ silenceElapsed' = 0
    /\ gaps' = 0

\* the caller has the returned bytes: receiveData's parameters and locals are
\* gone, the transport keeps what was not read
EndReceive ==
    /\ maxBytes' = 0
    /\ timeoutMs' = 0
    /\ totalElapsed' = 0
    /\ silenceElapsed' = 0
    /\ gaps' = 0
    /\ UNCHANGED <<line, unread, offered, buffer, resp>>

\* read() returned a byte after waiting g ms: a byte the port holds is
\* returned at once
RecvByte ==
    /\ pc = "recv"
    /\ RecvGoesOn
    /\ PortOpen
    /\ line # <<>>
    /\ \E g \in ByteGaps :
         /\ unread > 0 => g = 0
         /\ g > 0 => gaps < MaxGaps
         /\ gaps' = IF g > 0 THEN gaps + 1 ELSE gaps
         /\ LET buf == Append(buffer, Head(line))
            IN  IF StopFlagSeen(buf)
                THEN /\ pc' = "ret"
                     /\ resp' = buf
                     /\ buffer' = <<>>
                     /\ totalElapsed' = SatTotal(totalElapsed + g + STOP_CONFIRM_MS)
                ELSE IF PatternSeen(buf)
                THEN /\ pc' = "ret"
                     /\ resp' = Collapse(buf)
                     /\ buffer' = <<>>
                     /\ totalElapsed' = SatTotal(totalElapsed + g)
                ELSE /\ pc' = "recv"
                     /\ resp' = resp
                     /\ buffer' = buf
                     /\ totalElapsed' = SatTotal(totalElapsed + g)
    /\ line' = Tail(line)
    /\ unread' = IF unread > 0 THEN unread - 1 ELSE 0
    /\ silenceElapsed' = 0
    /\ UNCHANGED <<offered, maxBytes, timeoutMs>>
    /\ UNCHANGED <<op, phase, curAddr>>
    /\ UNCHANGED <<ctlVars, outVars, benchVars>>

\* read() timed out without a byte, then the 1 ms sleep; this happens as
\* often as the bytes on their way take, until a test at the loop head ends
\* the loop
RecvNoData ==
    /\ pc = "recv"
    /\ RecvGoesOn
    /\ PortOpen
    /\ unread = 0
    /\ gaps' = IF line # <<>> /\ gaps < MaxGaps THEN gaps + 1 ELSE gaps
    /\ totalElapsed' = SatTotal(totalElapsed + ReadTimeoutMs + 1)
    /\ silenceElapsed' = SatSilence(silenceElapsed + ReadTimeoutMs + 1)
    /\ UNCHANGED <<line, unread, offered, buffer, maxBytes, timeoutMs, resp>>
    /\ UNCHANGED <<callVars, ctlVars, outVars, benchVars>>

\* read() on a lost descriptor fails at once, then the 1 ms sleep, round
\* after round until the total timeout has passed: nothing is read
RecvNoPort ==
    /\ pc = "recv"
    /\ RecvGoesOn
    /\ ~PortOpen
    /\ totalElapsed' = timeoutMs + 1
    /\ silenceElapsed' = QUIET_MS + 1
    /\ UNCHANGED <<line, unread, offered, buffer, maxBytes, timeoutMs, gaps,
                   resp>>
    /\ UNCHANGED <<callVars, ctlVars, outVars, benchVars>>

\* a test at the head of the loop ends it: return buffer
RecvReturn ==
    /\ pc = "recv"
    /\ ~RecvGoesOn
    /\ pc' = "ret"
    /\ resp' = buffer
    /\ buffer' = <<>>
    /\ UNCHANGED <<line, unread, offered, maxBytes, timeoutMs, totalElapsed,
                   silenceElapsed, gaps>>
    /\ UNCHANGED <<op, phase, curAddr>>
    /\ UNCHANGED <<ctlVars, outVars, benchVars>>

(***************************************************************************)
(* The public operations.  An operation that makes several exchanges       *)
(* (scanAllPumps, testAddress) passes through pc = "call" between them.    *)
(***************************************************************************)
\* addresses and nozzles the caller passes
ArgAddrs == {80, 82}

ArgNozzles == {1}

\* the address main() passes to testAddress
TestAddrs == {80}

\* transaction numbers the caller passes to sendAck
ArgTxNums == {1}

Idle ==
    /\ op' = "none"
    /\ phase' = "none"
    /\ pc' = "idle"
    /\ curAddr' = 0

Goto(o, ph, a) ==
    /\ op' = o
    /\ phase' = ph
    /\ pc' = "call"
    /\ curAddr' = a

\* mutant: the receiveData call is left out, the caller goes on at once
InReceive_skipped(o, ph, a) ==
    /\ op' = o
    /\ phase' = ph
    /\ pc' = "ret"
    /\ curAddr' = a

\* the operation is inside the receiveData call made at call site ph
InReceive(o, ph, a) ==
    /\ op' = o
    /\ phase' = ph
    /\ pc' = "recv"
    /\ curAddr' = a

\* mutant: the loop runs one address past the last
ScanNext_pastMax(a) ==
    IF U8(a + 1) <= PUMP_ADDRESS_MAX + 1
    THEN Goto("scan", "poll", U8(a + 1)) ELSE Idle

\* the end of one pass of scanAllPumps' loop: addr++, addr <= 0x6F
ScanNext(a) ==
    IF U8(a + 1) <= PUMP_ADDRESS_MAX THEN Goto("scan", "poll", U8(a + 1)) ELSE Idle

\* mutant: scanAllPumps asks for the status whatever the poll returned
AfterPoll_statusAlways(o, a, result) ==
    CASE o = "poll" -> Idle
      [] o = "scan" -> Goto("scan", "status", a)
      [] o = "test" -> Goto("test", "tstatus", a)

\* where pollPump returns to
AfterPoll(o, a, result) ==
    CASE o = "poll" -> Idle
      [] o = "scan" -> IF result THEN Goto("scan", "status", a) ELSE ScanNext(a)
      [] o = "test" -> Goto("test", "tstatus", a)

\* where getPumpStatus returns to
AfterStatus(o, a) ==
    CASE o = "status" -> Idle
      [] o = "scan" -> ScanNext(a)

\* pollPump(a) up to its receiveData call, or to its early return
PollCall(o, a) ==
    /\ lastStatus' = <<>>
    /\ lastPacket' = <<>>
    /\ UNCHANGED <<isConnected, serialPort, txNumber, benchVars>>
    /\ IF ~isConnected
       THEN /\ pollResult' = <<FALSE>>
            /\ lastSent' = <<>>
            /\ NoReceive(line, unread)
            /\ AfterPoll(o, a, FALSE)
       ELSE \E ok \in SendOutcomes :
              IF ~ok
              THEN /\ pollResult' = <<FALSE>>
                   /\ lastSent' = <<>>
                   /\ NoReceive(clearBuffers(line, unread), Flushed(unread))
                   /\ AfterPoll(o, a, FALSE)
              ELSE /\ pollResult' = <<>>
                   /\ lastSent' = createPollPacket(a)
                   /\ InReceive(o, "poll", a)
                   /\ \E reply \in Answers(clearBuffers(line, unread),
                                             Replies(a, POLL)) :
                         BeginExchange(10, 300, reply)

\* mutant: the answer counts only if it is a frame that ends with the stop flag
pollPumpResult_framed(response) ==
    response # <<>> /\ response[Len(response)] = STOP_FLAG

\* pollPump: if (!response.empty()) return true; return false
pollPumpResult(response) == response # <<>>

\* pollPump: receiveData has returned
PollReturn ==
    /\ pc = "ret"
    /\ phase = "poll"
    /\ pollResult' = <<pollPumpResult(resp)>>
    /\ AfterPoll(op, curAddr, pollPumpResult(resp))
    /\ EndReceive
    /\ UNCHANGED <<lastSent, lastStatus>>
    /\ UNCHANGED <<ctlVars, benchVars>>

\* mutant: the packet is built and txNumber stays
CreateData_keepTx(address, command, nozzle, data) ==
    /\ lastPacket' = createDataPacket(address, command, nozzle, data)
    /\ txNumber' = txNumber

\* a createDataPacket call: the packet is built, txNumber moves on
CreateData(address, command, nozzle, data) ==
    /\ lastPacket' = createDataPacket(address, command, nozzle, data)
    /\ txNumber' = NextTx(txNumber)

\* getPumpStatus(a, nz) up to its receiveData call, or to its early return
StatusCall(o, a, nz) ==
    /\ pollResult' = <<>>
    /\ UNCHANGED <<isConnected, serialPort, benchVars>>
    /\ IF ~isConnected
       THEN /\ lastStatus' = <<DefaultStatus>>
            /\ lastSent' = <<>>
            /\ lastPacket' = <<>>
            /\ UNCHANGED txNumber
            /\ NoReceive(line, unread)
            /\ AfterStatus(o, a)
       ELSE /\ CreateData(a, RETURN_STATUS, nz, <<>>)
            /\ \E ok \in SendOutcomes :
                 IF ~ok
                 THEN /\ lastStatus' = <<DefaultStatus>>
                      /\ lastSent' = <<>>
                      /\ NoReceive(clearBuffers(line, unread), Flushed(unread))
                      /\ AfterStatus(o, a)
                 ELSE /\ lastStatus' = <<>>
                      /\ lastSent' = lastPacket'
                      /\ InReceive(o, "status", a)
                      /\ \E reply \in Answers(clearBuffers(line, unread),
                                                Replies(a, DATA)) :
                            BeginExchange(128, 1000, reply)

\* getPumpStatus: receiveData has returned
StatusReturn ==
    /\ pc = "ret"
    /\ phase = "status"
    /\ lastStatus' = <<getPumpStatusResult(resp)>>
    /\ AfterStatus(op, curAddr)
    /\ EndReceive
    /\ UNCHANGED <<lastSent, pollResult>>
    /\ UNCHANGED <<ctlVars, benchVars>>

\* an operation that returns no bytes and no status
NoResult ==
    /\ pollResult' = <<>>
    /\ lastStatus' = <<>>
    /\ lastPacket' = <<>>

\* connect succeeds: serialPort = open(...), isConnected = true, then
\* clearBuffers
Connect ==
    /\ pc = "idle"
    /\ serialPort' = "open"
    /\ isConnected' = TRUE
    /\ lastSent' = <<>>
    /\ NoResult
    /\ NoReceive(Drop(line, unread), 0)
    /\ UNCHANGED <<txNumber, callVars, benchVars>>

\* connect returns false: open() failed and serialPort is -1, or an
\* attribute call failed and serialPort is the number of the descriptor that
\* was closed again.  isConnected is not touched: a connected controller has
\* lost its port, and what the port holds stays there
ConnectFails ==
    /\ pc = "idle"
    /\ serialPort' = "none"
    /\ lastSent' = <<>>
    /\ NoResult
    /\ NoReceive(line, unread)
    /\ UNCHANGED <<isConnected, txNumber, callVars, benchVars>>

\* disconnect: on a connected controller serialPort is closed and set to -1;
\* what an open port held unread is gone
Disconnect ==
    /\ pc = "idle"
    /\ isConnected' = FALSE
    /\ serialPort' = IF isConnected THEN "none" ELSE serialPort
    /\ lastSent' = <<>>
    /\ NoResult
    /\ IF isConnected /\ PortOpen
       THEN NoReceive(Drop(line, unread), 0)
       ELSE NoReceive(line, unread)
    /\ UNCHANGED <<txNumber, callVars, benchVars>>

\* clearBuffers() called by the caller itself
ClearBuffers ==
    /\ pc = "idle"
    /\ lastSent' = <<>>
    /\ NoResult
    /\ NoReceive(clearBuffers(line, unread), Flushed(unread))
    /\ UNCHANGED <<isConnected, serialPort, txNumber, callVars, benchVars>>

\* between two calls of the program the next byte that was on its way
\* reaches the port
Arrive ==
    /\ pc \in {"idle", "call"}
    /\ unread < Len(line)
    /\ unread' = unread + 1
    /\ UNCHANGED <<line, offered, buffer, maxBytes, timeoutMs, totalElapsed,
                   silenceElapsed, gaps, resp>>
    /\ UNCHANGED <<ctlVars, callVars, outVars, benchVars>>

PollPump ==
    /\ pc = "idle"
    /\ \E x \in ArgAddrs : PollCall("poll", x)

GetPumpStatus ==
    /\ pc = "idle"
    /\ \E x \in ArgAddrs, nz \in ArgNozzles : StatusCall("status", x, nz)

\* sendData(data): nothing is written when not connected or when write()
\* fails; a frame that was written may be answered with `reply`, which
\* follows the bytes still on their way
Written(data, ok, reply) ==
    /\ lastSent' = IF isConnected /\ ok THEN data ELSE <<>>
    /\ NoReceive(IF isConnected /\ ok THEN line \o reply ELSE line, unread)

\* sendAck(a, txNum): createAckPacket, then sendData
SendAck ==
    /\ pc = "idle"
    /\ \E x \in ArgAddrs, t \in ArgTxNums, ok \in SendOutcomes :
         \E reply \in Answers(line, AckReplies(x)) :
            Written(createAckPacket(x, t), ok, reply)
    /\ NoResult
    /\ UNCHANGED <<isConnected, serialPort, txNumber, callVars, benchVars>>

\* frames the caller passes to sendData itself: a poll frame and a status
\* request with transaction number 1
ArgFrames ==
    { [frame |-> createPollPacket(x), address |-> x, code |-> POLL]
        : x \in ArgAddrs }
    \cup { [frame |-> ReplyFrame(x, DataCtrl(1), 1, <<>>), address |-> x,
            code |-> DATA] : x \in ArgAddrs }

\* sendData(data) called by the caller itself
SendData ==
    /\ pc = "idle"
    /\ \E f \in ArgFrames, ok \in SendOutcomes :
         \E reply \in Answers(line, Replies(f.address, f.code)) :
            Written(f.frame, ok, reply)
    /\ NoResult
    /\ UNCHANGED <<isConnected, serialPort, txNumber, callVars, benchVars>>

\* createDataPacket(a, RETURN_STATUS, nz, {}) called by the caller itself
CreateDataPacket ==
    /\ pc = "idle"
    /\ \E x \in ArgAddrs, nz \in ArgNozzles :
         CreateData(x, RETURN_STATUS, nz, <<>>)
    /\ lastSent' = <<>>
    /\ pollResult' = <<>>
    /\ lastStatus' = <<>>
    /\ NoReceive(line, unread)
    /\ UNCHANGED <<isConnected, serialPort, callVars, benchVars>>

\* scanAllPumps up to the first receiveData call
ScanAllPumps ==
    /\ pc = "idle"
    /\ PollCall("scan", PUMP_ADDRESS_MIN)

ScanPoll ==
    /\ pc = "call"
    /\ op = "scan"
    /\ phase = "poll"
    /\ PollCall("scan", curAddr)

ScanStatus ==
    /\ pc = "call"
    /\ op = "scan"
    /\ phase = "status"
    /\ StatusCall("scan", curAddr, 1)

\* receiveData(mb, to) called by the caller itself
ReceiveData ==
    /\ pc = "idle"
    /\ \E mb \in {0, 10, 128}, to \in {300} : BeginReceive(mb, to, line)
    /\ InReceive("recv", "none", 0)
    /\ lastSent' = <<>>
    /\ NoResult
    /\ UNCHANGED <<isConnected, serialPort, txNumber, benchVars>>

\* that receiveData call has returned
ReceiveReturn ==
    /\ pc = "ret"
    /\ op = "recv"
    /\ Idle
    /\ EndReceive
    /\ UNCHANGED <<ctlVars, outVars, benchVars>>

\* testAddress(a) up to the receiveData call of its pollPump
TestAddress ==
    /\ pc = "idle"
    /\ \E x \in TestAddrs : PollCall("test", x)

\* where testAddress goes on after the step made at call site ph
TestNext(ph, a) ==
    CASE ph = "tstatus" -> Goto("test", "tfilling", a)
      [] ph = "textra" -> Goto("test", "tfilling", a)
      [] ph = "tfilling" -> Goto("test", "treset", a)
      [] ph = "treset" -> Idle

\* one of testAddress' data exchanges: clearBuffers, createDataPacket,
\* sendData and, when that succeeded, the receiveData call
TestData(ph, cmd, to) ==
    /\ CreateData(curAddr, cmd, 1, <<>>)
    /\ pollResult' = <<>>
    /\ lastStatus' = <<>>
    /\ UNCHANGED <<isConnected, serialPort, benchVars>>
    /\ \E ok \in SendOutcomes :
         IF isConnected /\ ok
         THEN /\ lastSent' = lastPacket'
              /\ InReceive("test", ph, curAddr)
              /\ \E reply \in Answers(clearBuffers(line, unread),
                                        CommandReplies(curAddr, cmd)) :
                    BeginExchange(128, to, reply)
         ELSE /\ lastSent' = <<>>
              /\ NoReceive(clearBuffers(line, unread), Flushed(unread))
              /\ TestNext(ph, curAddr)

TestStatus ==
    /\ pc = "call"
    /\ op = "test"
    /\ phase = "tstatus"
    /\ TestData("tstatus", RETURN_STATUS, 1000)

\* the status reply is in: analysed and parsed for printing only; a reply of
\* 5 bytes or more is acknowledged with sendAck(address, 1) and followed by
\* receiveData(64, 300)
TestStatusReturn ==
    /\ pc = "ret"
    /\ phase = "tstatus"
    /\ UNCHANGED <<ctlVars, benchVars, pollResult, lastStatus>>
    /\ IF Len(resp) >= 5
       THEN \E ok \in SendOutcomes,
               reply \in Answers(line, AckReplies(curAddr)) :
              /\ lastSent' = IF isConnected /\ ok
                             THEN createAckPacket(curAddr, 1) ELSE <<>>
              /\ BeginReceive(64, 300,
                              IF isConnected /\ ok THEN line \o reply ELSE line)
              /\ InReceive("test", "textra", curAddr)
       ELSE /\ UNCHANGED lastSent
            /\ EndReceive
            /\ TestNext("tstatus", curAddr)

TestExtraReturn ==
    /\ pc = "ret"
    /\ phase = "textra"
    /\ TestNext("textra", curAddr)
    /\ EndReceive
    /\ UNCHANGED <<ctlVars, outVars, benchVars>>

TestFilling ==
    /\ pc = "call"
    /\ op = "test"
    /\ phase = "tfilling"
    /\ TestData("tfilling", RETURN_FILLING_INFO, 500)

TestFillingReturn ==
    /\ pc = "ret"
    /\ phase = "tfilling"
    /\ TestNext("tfilling", curAddr)
    /\ EndReceive
    /\ UNCHANGED <<ctlVars, outVars, benchVars>>

TestReset ==
    /\ pc = "call"
    /\ op = "test"
    /\ phase = "treset"
    /\ TestData("treset", RESET_NOZZLE, 500)

TestResetReturn ==
    /\ pc = "ret"
    /\ phase = "treset"
    /\ TestNext("treset", curAddr)
    /\ EndReceive
    /\ UNCHANGED <<ctlVars, outVars, benchVars>>

(***************************************************************************)
(* The session: a freshly constructed controller and every call sequence.  *)
(***************************************************************************)
Init ==
    /\ isConnected = FALSE
    /\ serialPort = "none"
    /\ txNumber = 1
    /\ nData = 0
    /\ lastPacket = <<>>
    /\ op = "none"
    /\ phase = "none"
    /\ pc = "idle"
    /\ curAddr = 0
    /\ line = <<>>
    /\ unread = 0
    /\ offered = <<>>
    /\ buffer = <<>>
    /\ maxBytes = 0
    /\ timeoutMs = 0
    /\ totalElapsed = 0
    /\ silenceElapsed = 0
    /\ gaps = 0
    /\ resp = <<>>
    /\ lastSent = <<>>
    /\ pollResult = <<>>
    /\ lastStatus = <<>>
    /\ arg = <<>>
    /\ ret = <<>>

Next ==
    \/ Connect
    \/ ConnectFails
    \/ Disconnect
    \/ ClearBuffers
    \/ Arrive
    \/ PollPump
    \/ GetPumpStatus
    \/ SendAck
    \/ SendData
    \/ CreateDataPacket
    \/ ReceiveData
    \/ ScanAllPumps
    \/ ScanPoll
    \/ ScanStatus
    \/ TestAddress
    \/ TestStatus
    \/ TestFilling
    \/ TestReset
    \/ RecvByte
    \/ RecvNoData
    \/ RecvNoPort
    \/ RecvReturn
    \/ PollReturn
    \/ StatusReturn
    \/ TestStatusReturn
    \/ TestExtraReturn
    \/ TestFillingReturn
    \/ TestResetReturn
    \/ ReceiveReturn

Spec == Init /\ [][Next]_vars

\* a session that connects, scans and disconnects
NextScan ==
    \/ Connect
    \/ Disconnect
    \/ Arrive
    \/ ScanAllPumps
    \/ ScanPoll
    \/ ScanStatus
    \/ RecvByte
    \/ RecvNoData
    \/ RecvReturn
    \/ PollReturn
    \/ StatusReturn

SpecScan == Init /\ [][NextScan]_vars

\* a session of single calls: connect, disconnect, clearBuffers, pollPump,
\* getPumpStatus, sendAck, sendData, createDataPacket and receiveData
NextCalls ==
    \/ Connect
    \/ ConnectFails
    \/ Disconnect
    \/ ClearBuffers
    \/ Arrive
    \/ PollPump
    \/ GetPumpStatus
    \/ SendAck
    \/ SendData
    \/ CreateDataPacket
    \/ ReceiveData
    \/ RecvByte
    \/ RecvNoData
    \/ RecvNoPort
    \/ RecvReturn
    \/ PollReturn
    \/ StatusReturn
    \/ ReceiveReturn

SpecCalls == Init /\ [][NextCalls]_vars

(***************************************************************************)
(* Function benches: a function of the source applied to inputs drawn from *)
(* bounded sets.  arg holds the input, ret the result.                     *)
(***************************************************************************)
\* a constructed controller about to run bench o on input from inputs
Bench(o, inputs) ==
    /\ isConnected = FALSE
    /\ serialPort = "none"
    /\ txNumber = 1
    /\ lastPacket = <<>>
    /\ op = o
    /\ phase = "none"
    /\ pc = "bench"
    /\ curAddr = 0
    /\ line = <<>>
    /\ unread = 0
    /\ offered = <<>>
    /\ buffer = <<>>
    /\ maxBytes = 0
    /\ timeoutMs = 0
    /\ totalElapsed = 0
    /\ silenceElapsed = 0
    /\ gaps = 0
    /\ resp = <<>>
    /\ lastSent = <<>>
    /\ pollResult = <<>>
    /\ lastStatus = <<>>
    /\ nData = 0
    /\ arg \in inputs
    /\ ret = <<>>

\* all sequences over S of length at most n
RECURSIVE SeqsUpTo(_, _)
SeqsUpTo(S, n) ==
    IF n = 0 THEN {<<>>}
    ELSE LET shorter == SeqsUpTo(S, n - 1)
         IN  shorter \cup {Append(q, x) : q \in shorter, x \in S}

MaxCrcLen == 3

CrcAlphabet == {0, 1, 80, 250, 255}

CrcInputs == SeqsUpTo(CrcAlphabet, MaxCrcLen) \cup {<<b>> : b \in Byte}

InitCRC == Bench("crc", CrcInputs)

\* calculateCRC16(arg)
CalcCRC16 ==
    /\ op = "crc"
    /\ ret = <<>>
    /\ ret' = <<calculateCRC16(arg)>>
    /\ UNCHANGED <<ctlVars, callVars, rxVars, outVars, arg, nData>>

NextCRC == CalcCRC16

SpecCRC == InitCRC /\ [][NextCRC]_vars

\* a payload one byte too long for the length byte
LongPayload == [i \in 1..255 |-> 0]

DataArgs ==
    [address : {80, 111}, command : 0..15, nozzle : {1, 18},
     data : {<<>>, <<7>>, <<250, 3>>}]
    \cup {[address |-> 80, command |-> 0, nozzle |-> 1, data |-> LongPayload]}

MaxDataCalls == 16

InitPacket == Bench("build", DataArgs)

\* createDataPacket(arg.address, arg.command, arg.nozzle, arg.data), again and
\* again on the same controller
BuildData ==
    /\ op = "build"
    /\ nData < MaxDataCalls
    /\ CreateData(arg.address, arg.command, arg.nozzle, arg.data)
    /\ nData' = nData + 1
    /\ UNCHANGED <<isConnected, serialPort, callVars, rxVars, outVars, arg, ret>>

NextPacket == BuildData

SpecPacket == InitPacket /\ [][NextPacket]_vars

InitPacketRev1 == Bench("buildRev1", DataArgs)

\* the first revision's createDataPacket(arg.address, arg.command, arg.nozzle,
\* arg.data), again and again on the same controller
BuildDataRev1 ==
    /\ op = "buildRev1"
    /\ nData < MaxDataCalls
    /\ lastPacket' =
          createDataPacketRev1(arg.address, arg.command, arg.nozzle, arg.data)
    /\ nData' = nData + 1
    /\ UNCHANGED <<isConnected, serialPort, txNumber, callVars, rxVars, outVars, arg, ret>>

NextPacketRev1 == BuildDataRev1

SpecPacketRev1 == InitPacketRev1 /\ [][NextPacketRev1]_vars

\* createPollPacket(arg) in either revision, for every address byte
InitPoll == \E o \in {"buildPoll", "buildPollRev1"} : Bench(o, Byte)

BuildPoll ==
    /\ op = "buildPoll"
    /\ ret = <<>>
    /\ ret' = <<createPollPacket(arg)>>
    /\ UNCHANGED <<ctlVars, callVars, rxVars, outVars, arg, nData>>

BuildPollRev1 ==
    /\ op = "buildPollRev1"
    /\ ret = <<>>
    /\ ret' = <<createPollPacketRev1(arg)>>
    /\ UNCHANGED <<ctlVars, callVars, rxVars, outVars, arg, nData>>

NextPoll ==
    \/ BuildPoll
    \/ BuildPollRev1

SpecPoll == InitPoll /\ [][NextPoll]_vars

MaxBcdLen == 4

\* bytes with both nibbles in 0..9, and two with a nibble above 9
BcdBytes == {0, 9, 18, 52, 86, 120, 153, 10, 255}

BcdInputs == SeqsUpTo(BcdBytes, MaxBcdLen)

InitBcd == Bench("bcd", BcdInputs)

\* bcdToDecimal(arg)
BcdToDecimal ==
    /\ op = "bcd"
    /\ ret = <<>>
    /\ ret' = <<bcdToDecimal(arg)>>
    /\ UNCHANGED <<ctlVars, callVars, rxVars, outVars, arg, nData>>

NextBcd == BcdToDecimal

SpecBcd == InitBcd /\ [][NextBcd]_vars

\* every value below this one is converted at every width
MaxFullValue == 999

\* the byte counts decimalToBcd is called with
BcdWidths == 1..4

\* values for decimalToBcd(value, n): the low range in full, the top of the
\* range of n bytes, digit patterns, and values one width too large
DecValues(n) ==
    {v \in 0..MaxFullValue : v < 100^n}
    \cup {100^n - k : k \in 1..10}
    \cup {12345678 % (100^n), 90909090 % (100^n), 9090909 % (100^n)}
    \cup {100^n, 100^n + 7}

DecInputs ==
    UNION {{[value |-> v, bytes |-> n] : v \in DecValues(n)} : n \in BcdWidths}

InitBcdRound == InitBcd \/ Bench("toBcd", DecInputs)

\* decimalToBcd(arg.value, arg.bytes)
DecimalToBcd ==
    /\ op = "toBcd"
    /\ ret = <<>>
    /\ ret' = <<decimalToBcd(U32(arg.value), arg.bytes)>>
    /\ UNCHANGED <<ctlVars, callVars, rxVars, outVars, arg, nData>>

NextBcdRound ==
    \/ BcdToDecimal
    \/ DecimalToBcd

SpecBcdRound == InitBcdRound /\ [][NextBcdRound]_vars

\* status replies: every nozzle number and every status byte
StatusReplies(a) ==
    {ReplyFrame(a, 20, nz, <<b>>) : nz \in 0..15, b \in Byte}

\* the frame 52 00 01 01 00 crcLo crcHi 03 FA
WorkedBody == <<82, 0, 1, 1, 0>>

WorkedFrame ==
    WorkedBody \o <<CrcLo(calculateCRC16(WorkedBody)),
                    CrcHi(calculateCRC16(WorkedBody)), ETX, STOP_FLAG>>

\* other things a caller may hand to parseResponse
OtherReplies ==
    { <<>>, <<80>>, <<80, 18>>,
      WorkedFrame,
      <<80, 18, 250>>, <<82, 19, 250>>, <<82, 17, 250>>,
      <<250, 80, 129>>, <<250, 80, 129, 0>>,
      <<82, 20, 2, 1>>,
      <<1, 95, 55, 3, 250>>,
      <<17, 95, 55, 3, 250>>,
      <<33, 95, 55, 3, 250>>,
      Repeat(ECHO, 3),
      BadCrc(StatusFrame(82)),
      BadCrc(StatusFrame(80)),
      ReplyFrame(82, 20, 1, <<100, 7>>),
      ReplyFrame(82, 20, 17, <<100>>),
      ReplyFrame(82, 18, 1, <<100>>),
      ReplyFrame(82, 20, 1, <<>>),
      Prefix(StatusFrame(82), 8),
      Prefix(StatusFrame(82), 7),
      Prefix(StatusFrame(82), 6),
      <<82, 20, 9, 1, 100, 0, 0, 3, 250>> }

\* frame f without its STOP_FLAG, and with another byte in its place
Unterminated(f) == {Prefix(f, Len(f) - 1), Prefix(f, Len(f) - 1) \o <<0>>}

UnterminatedReplies(a) == UNION {Unterminated(f) : f \in StatusReplies(a)}

InitParse ==
    \E o \in {"parse", "parseStatus"} :
        Bench(o, StatusReplies(82) \cup UnterminatedReplies(82)
                    \cup OtherReplies)

\* parseResponse(arg)
ParseReply ==
    /\ op = "parse"
    /\ ret = <<>>
    /\ ret' = <<parseResponse(arg)>>
    /\ UNCHANGED <<ctlVars, callVars, rxVars, outVars, arg, nData>>

\* parseStatusResponse(arg), first revision
ParseStatusReply ==
    /\ op = "parseStatus"
    /\ ret = <<>>
    /\ ret' = <<parseStatusResponse(arg)>>
    /\ UNCHANGED <<ctlVars, callVars, rxVars, outVars, arg, nData>>

NextParse ==
    \/ ParseReply
    \/ ParseStatusReply

SpecParse == InitParse /\ [][NextParse]_vars

\* a reply of 13 bytes whose payload has the value 0xFA as the 8th byte
FlagInPayload == ReplyFrame(80, 20, 1, <<100, 0, 0, 250, 7>>)

\* reply bytes followed by the repeated echo
NoisyReplies == {lead \o e : lead \in {<<7>>, <<80, 20>>}, e \in EchoReplies}

MaxDecodeLen == 3

DecodeBytes == {3, 20, 80, 129, 250, 255}

\* replies whose length byte disagrees with their size
BadLengthReplies ==
    {<<82, 20, n, 1, 100, 0, 0, 3, 250>> : n \in {0, 1, 2, 3, 4, 9, 255}}

\* buffers of 9 bytes and more with the echo pattern whole, cut short or
\* absent
ScanBuffers ==
    EchoReplies \cup
    { <<7>> \o Repeat(ECHO, 3),
      Repeat(ECHO, 3) \o <<250>>,
      Repeat(ECHO, 3) \o <<250, 80>>,
      Repeat(ECHO, 2) \o <<250, 80, 0>>,
      Repeat(ECHO, 2) \o <<250, 0, 129>>,
      Repeat(<<250, 82, 129>>, 3) }

\* byte sequences of every length from 0 on
DecodeInputs ==
    SeqsUpTo(DecodeBytes, MaxDecodeLen) \cup OtherReplies
        \cup BadLengthReplies \cup ScanBuffers

InitDecode ==
    \E o \in {"decode", "decodeRev1", "scan"} : Bench(o, DecodeInputs)

\* parseResponse(arg), with the indices it read
DecodeReply ==
    /\ op = "decode"
    /\ ret = <<>>
    /\ ret' = <<[value |-> parseResponse(arg),
                 reads |-> parseResponseReads(arg)]>>
    /\ UNCHANGED <<ctlVars, callVars, rxVars, outVars, arg, nData>>

\* parseStatusResponse(arg) of the first revision, with the indices it read
DecodeReplyRev1 ==
    /\ op = "decodeRev1"
    /\ ret = <<>>
    /\ ret' = <<[value |-> parseStatusResponse(arg),
                 reads |-> parseStatusResponseReads(arg)]>>
    /\ UNCHANGED <<ctlVars, callVars, rxVars, outVars, arg, nData>>

\* the pattern scan of receiveData on the buffer arg, with the indices it read
ScanBuffer ==
    /\ op = "scan"
    /\ ret = <<>>
    /\ ret' = <<[value |-> PatternScan(arg), reads |-> PatternScanReads(arg)]>>
    /\ UNCHANGED <<ctlVars, callVars, rxVars, outVars, arg, nData>>

NextDecode ==
    \/ DecodeReply
    \/ DecodeReplyRev1
    \/ ScanBuffer

SpecDecode == InitDecode /\ [][NextDecode]_vars

\* what the transport may hold when receiveData is called
RecvLines ==
    EchoReplies \cup NoisyReplies \cup
    { <<>>,
      FlagInPayload,
      <<80, 18, 250>>,
      StatusFrame(80),
      Repeat(<<250, 82, 129>>, 3) }

\* the caps the calls of the program pass (10, 64 and 128, the default), two
\* smaller ones that the streams above fill, and 0, on which the loop is
\* never entered
RecvMaxBytes == {0, 3, 9, 10, 64, 128}

\* what isConnected and serialPort can be when receiveData is called:
\* connected with the port open or lost, or not connected
RecvSessions ==
    { [connected |-> TRUE, port |-> "open"],
      [connected |-> TRUE, port |-> "none"],
      [connected |-> FALSE, port |-> "none"] }

RecvTimeouts == {300, 1000}

\* receiveData(maxBytes, timeoutMs) entered with any number of the bytes
\* already at the port
InitRecv ==
    /\ \E s \in RecvSessions :
          /\ isConnected = s.connected
          /\ serialPort = s.port
    /\ txNumber = 1
    /\ lastPacket = <<>>
    /\ op = "recv"
    /\ phase = "none"
    /\ pc = "recv"
    /\ curAddr = 0
    /\ line \in RecvLines
    /\ unread \in 0..Len(line)
    /\ offered = line
    /\ buffer = <<>>
    /\ maxBytes \in RecvMaxBytes
    /\ timeoutMs \in RecvTimeouts
    /\ totalElapsed = 0
    /\ silenceElapsed = 0
    /\ gaps = 0
    /\ resp = <<>>
    /\ lastSent = <<>>
    /\ pollResult = <<>>
    /\ lastStatus = <<>>
    /\ nData = 0
    /\ arg = <<>>
    /\ ret = <<>>

NextRecv ==
    \/ RecvByte
    \/ RecvNoData
    \/ RecvNoPort
    \/ RecvReturn

SpecRecv == InitRecv /\ [][NextRecv]_vars

\* the thread that runs receiveData is never suspended for good: whenever
\* the loop can make its next test, read or return, it does
SpecRecvFair == SpecRecv /\ WF_vars(NextRecv)

(***************************************************************************)
(* Properties.                                                             *)
(***************************************************************************)
\* the bytes address..crcHi of a frame, as its length byte lays them out
CrcSpan(r) == Prefix(r, 5 + At(r, 2))

\* a DATA frame whose CRC residue over address..crcHi is zero
IsVerifiedData(r) ==
    /\ Len(r) >= 4
    /\ At(r, 1) % 16 = DATA
    /\ Len(r) >= 5 + At(r, 2)
    /\ calculateCRC16(CrcSpan(r)) = 0

\* a verified DATA frame whose response type is NOZZLE_STATUS
IsVerifiedStatus(r) ==
    /\ IsVerifiedData(r)
    /\ At(r, 3) \div 16 = NOZZLE_STATUS

\* C1: a status returned by parseResponse has isValid = TRUE only if the
\* bytes parsed are a DATA frame of type NOZZLE_STATUS whose CRC residue over
\* address..crcHi is zero.
C1_ValidOnlyVerifiedStatus ==
    (op = "parse" /\ ret # <<>> /\ ret[1].isValid) => IsVerifiedStatus(arg)

\* the transaction number of the k-th createDataPacket call
ExpectedTx(k) == ((k - 1) % 15) + 1

\* C2: on a freshly constructed controller the k-th createDataPacket call
\* builds its frame with transaction number ((k-1) mod 15) + 1, and leaves
\* the number of call k+1 in txNumber; the value 0 is never used.
C2_KthCallTx ==
    op = "build" =>
        /\ txNumber = ExpectedTx(nData + 1)
        /\ nData > 0 => At(lastPacket, 1) = DataCtrl(ExpectedTx(nData))

\* C2 witness: the 16th call has been made, its number was 1 again
C2_Witness ==
    /\ op = "build"
    /\ nData = 16
    /\ txNumber = 2
    /\ At(lastPacket, 1) = DataCtrl(1)

\* C3: in every reachable state of a session txNumber is in 1..15.
C3_TxInRange == txNumber \in 1..15

\* C3 witness: a data exchange of a session used the number 15 and the
\* counter wrapped to 1
C3_Witness ==
    /\ op = "none"
    /\ isConnected
    /\ lastPacket # <<>>
    /\ CtrlTxNum(At(lastPacket, 1)) = 15
    /\ txNumber = 1

\* C4: for every byte sequence s, calculateCRC16 of s followed by the low and
\* then the high byte of calculateCRC16(s) is 0.
C4_CrcRoundTrip ==
    (op = "crc" /\ ret # <<>>) =>
        calculateCRC16(arg \o <<ret[1] % 256, ret[1] \div 256>>) = 0

\* C4 witness: a CRC other than 0 was computed over a sequence of full length
C4_Witness ==
    /\ op = "crc"
    /\ ret # <<>>
    /\ Len(arg) = MaxCrcLen
    /\ ret[1] > 255

\* a reply getPumpStatus can decode: a 3-byte short control frame, or a DATA
\* frame whose CRC residue is zero
IsDecodable(r) == Len(r) = 3 \/ IsVerifiedData(r)

\* C5: getPumpStatus returns isValid = FALSE whenever sendData failed and
\* whenever the received bytes are undecodable: neither a 3-byte short control
\* frame nor a DATA frame with a zero CRC residue.
C5_InvalidOnFailure ==
    (lastStatus # <<>> /\ (lastSent = <<>> \/ ~IsDecodable(resp)))
        => ~lastStatus[1].isValid

\* C6: when the transport delivers no byte before the receive times out,
\* getPumpStatus returns a status with isValid = FALSE.
C6_NoResponseInvalid ==
    (lastStatus # <<>> /\ lastSent # <<>> /\ resp = <<>>)
        => ~lastStatus[1].isValid

\* C6 witness: getPumpStatus wrote its frame, received nothing, and returned
C6_Witness ==
    /\ op = "none"
    /\ lastStatus # <<>>
    /\ lastSent = lastPacket
    /\ lastSent # <<>>
    /\ offered = <<>>
    /\ resp = <<>>
    /\ ~lastStatus[1].isValid

\* the frame layout: [address, control, length, opc, extra..., crcLo, crcHi,
\* 0x03, 0xFA] for the arguments of the packet bench
PacketLaidOut ==
    LET n == Len(arg.data)
        p == lastPacket
        crc == calculateCRC16(Prefix(p, 4 + n))
    IN  /\ Len(p) = 8 + n
        /\ At(p, 0) = arg.address
        /\ At(p, 1) % 16 = DATA
        /\ At(p, 2) = 1 + n
        /\ At(p, 3) = (arg.command * 16) + (arg.nozzle % 16)
        /\ SubSeq(p, 5, 4 + n) = arg.data
        /\ At(p, 4 + n) = crc % 256
        /\ At(p, 5 + n) = crc \div 256
        /\ At(p, 6 + n) = 3
        /\ At(p, 7 + n) = 250
        /\ calculateCRC16(Prefix(p, 6 + n)) = 0

\* C7: for every address, command in 0..15, nozzle and extra payload of n
\* bytes, createDataPacket returns the 8+n bytes [address, control, 1+n, opc,
\* extra..., crcLo, crcHi, 0x03, 0xFA], and the CRC residue over
\* address..crcHi is 0.
C7_PacketLayout == (op = "build" /\ nData > 0) => PacketLaidOut

\* C7, amended: the same for every extra payload of at most 254 bytes, the
\* longest whose length 1+n fits the length byte.
C7_PacketLayoutFits ==
    (op = "build" /\ nData > 0 /\ Len(arg.data) <= 254) => PacketLaidOut

\* C7 witness: a packet with two extra bytes and a nozzle number above 15
C7_Witness ==
    /\ op = "build"
    /\ nData > 0
    /\ arg.data = <<250, 3>>
    /\ arg.nozzle = 18
    /\ arg.command = 15
    /\ Len(lastPacket) = 10

\* C8: the transaction number t in 1..15 that createDataPacket used is
\* recoverable from the control byte of its frame as (ctrl >> 4) & 0x0F.
C8_TxRecoverable ==
    (op = "build" /\ nData > 0)
        => (At(lastPacket, 1) \div 16) % 16 = ExpectedTx(nData)

\* a well-formed DATA frame of type NOZZLE_STATUS with length >= 2
IsStatusReply(r) ==
    /\ Len(r) >= 9
    /\ At(r, 1) % 16 = DATA
    /\ At(r, 2) >= 2
    /\ Len(r) = 7 + At(r, 2)
    /\ At(r, 3) \div 16 = NOZZLE_STATUS
    /\ At(r, Len(r) - 2) = 3
    /\ At(r, Len(r) - 1) = 250

\* C9: for every DATA/NOZZLE_STATUS reply with length >= 2, every nozzle
\* number in opc and every status byte b at offset 4, the decoded status has
\* status = b & 0x0F, nozzleOn = bit 4, rfTagSensed = bit 5, errorFlag = bit 6
\* of b, and isValid = TRUE.
C9_StatusDecode ==
    (op = "parse" /\ ret # <<>> /\ IsStatusReply(arg)) =>
        LET b == At(arg, 4)
        IN  /\ ret[1].status = b % 16
            /\ ret[1].nozzleOn = ((b \div 16) % 2 = 1)
            /\ ret[1].rfTagSensed = ((b \div 32) % 2 = 1)
            /\ ret[1].errorFlag = ((b \div 64) % 2 = 1)
            /\ ret[1].isValid

\* C10: when the transport delivers FA 50 81 repeated three or more times
\* back to back (the port is open and no read had to wait) and maxBytes >= 9,
\* receiveData returns exactly FA 50 81.
C10_EchoCollapsed ==
    (/\ pc = "ret"
     /\ PortOpen
     /\ offered \in EchoReplies
     /\ gaps = 0
     /\ maxBytes >= 9)
        => resp = <<250, 80, 129>>

\* C10 witness: four repeats were on the line, three bytes were returned
C10_Witness ==
    /\ op = "recv"
    /\ pc = "ret"
    /\ offered = Repeat(<<250, 80, 129>>, 4)
    /\ gaps = 0
    /\ maxBytes = 128
    /\ resp = <<250, 80, 129>>

\* C11: decoding the assembled frame 52 00 01 01 00 crcLo crcHi 03 FA reports
\* isValid = TRUE, in both revisions.
C11_WorkedExampleValid ==
    (op \in {"parse", "parseStatus"} /\ ret # <<>> /\ arg = WorkedFrame)
        => ret[1].isValid

\* C11, amended: the frame's control byte 0x00 does not carry the code DATA;
\* decoding it reports isValid = FALSE and the address 0x52, in both revisions.
C11_WorkedExampleInvalid ==
    (op \in {"parse", "parseStatus"} /\ ret # <<>> /\ arg = WorkedFrame)
        => (~ret[1].isValid /\ ret[1].address = 82)

\* C11 witness: parseResponse has decoded the frame, whose CRC residue is zero
C11_Witness ==
    /\ op = "parse"
    /\ ret # <<>>
    /\ arg = WorkedFrame
    /\ Len(arg) = 9
    /\ calculateCRC16(Prefix(arg, 7)) = 0
    /\ ~ret[1].isValid

\* this step is no step of the program: between two calls bytes that were on
\* their way reach the port
ByteArrives == pc \in {"idle", "call"} /\ pc' = pc /\ unread' > unread

\* this step writes a frame: outside a receive every step of the program
\* either writes
\* (lastSent' is the frame) or clears lastSent, except the returns, which
\* leave it alone unless they write the acknowledgement
FrameWritten ==
    /\ lastSent' # <<>>
    /\ ~ByteArrives
    /\ \/ pc \in {"idle", "call"}
       \/ pc = "ret" /\ lastSent' # lastSent

\* C12: in pollPump, getPumpStatus, scanAllPumps and testAddress no frame is
\* written while a receiveData call is in progress, every frame written is
\* followed at once by a receiveData call, and after the receive of a
\* pollPump or getPumpStatus has returned the call writes nothing more.
C12_HalfDuplex ==
    [][ /\ pc = "recv" => lastSent' = lastSent
        /\ (FrameWritten /\ op' # "none") =>
               (pc' = "recv" /\ buffer' = <<>> /\ resp' = <<>>)
        /\ (pc = "ret" /\ phase \in {"poll", "status"}) =>
               (lastSent' = lastSent /\ pc' # "recv")
      ]_vars

\* C12 witness: testAddress has written its acknowledgement, the second frame
\* of the status exchange, and is inside the receive that follows it
C12_Witness ==
    /\ op = "test"
    /\ phase = "textra"
    /\ pc = "recv"
    /\ lastSent = createAckPacket(curAddr, 1)
    /\ buffer = <<>>

\* C13: a scan never writes a poll frame or a data frame whose address byte
\* is outside 0x50..0x6F.
C13_ScanAddressInRange ==
    (op = "scan" /\ lastSent # <<>>) => At(lastSent, 0) \in 80..111

\* C13 witness: the scan has written the poll frame of the last address
C13_Witness ==
    /\ op = "scan"
    /\ pc = "recv"
    /\ lastSent = <<111, 129, 250>>

\* a step of scanAllPumps, its first included
InScanStep ==
    /\ op = "scan" \/ (pc = "idle" /\ op' = "scan")
    /\ ~ByteArrives

\* the address of the pollPump call this step belongs to
ScanPolled == IF pc = "idle" THEN PUMP_ADDRESS_MIN ELSE curAddr

\* the loop goes on with the poll of a + 1, or ends after 0x6F
ScanAdvances(a) ==
    IF a < PUMP_ADDRESS_MAX
    THEN op' = "scan" /\ phase' = "poll" /\ pc' = "call" /\ curAddr' = a + 1
    ELSE op' = "none" /\ pc' = "idle"

\* C14, order: the scan starts at 0x50; a poll that returned true is followed
\* by getPumpStatus of the same address, a poll that returned false by the
\* poll of the next address (or by the end after 0x6F); when getPumpStatus
\* has returned the next address is polled.
C14_ScanOrder ==
    [][ /\ (op # "scan" /\ op' = "scan") => pc = "idle"
        /\ (InScanStep /\ (phase = "poll" \/ pc = "idle")) =>
              CASE pollResult' = <<TRUE>> ->
                     /\ op' = "scan" /\ phase' = "status" /\ pc' = "call"
                     /\ curAddr' = ScanPolled
                [] pollResult' = <<FALSE>> -> ScanAdvances(ScanPolled)
                [] OTHER ->
                     /\ op' = "scan" /\ phase' = "poll"
                     /\ curAddr' = ScanPolled
        /\ (InScanStep /\ op = "scan" /\ phase = "status") =>
              IF lastStatus' # <<>> THEN ScanAdvances(curAddr)
              ELSE op' = "scan" /\ phase' = "status" /\ curAddr' = curAddr
      ]_vars

\* what is left of a scan, most significant first: addresses to visit, calls
\* to make for this address, steps of the call, bytes to read, time to wait,
\* bytes on their way
ScanMeasure ==
    <<PUMP_ADDRESS_MAX - curAddr,
      IF phase = "poll" THEN 1 ELSE 0,
      CASE pc = "call" -> 2 [] pc = "recv" -> 1 [] OTHER -> 0,
      Len(line),
      (timeoutMs + 1) - totalElapsed,
      Len(line) - unread>>

\* m is below n in the lexicographic order of tuples of naturals
RECURSIVE LexLess(_, _)
LexLess(m, n) ==
    /\ m # <<>>
    /\ Head(m) \in Nat
    /\ \/ Head(m) < Head(n)
       \/ Head(m) = Head(n) /\ LexLess(Tail(m), Tail(n))

\* the scan is not stuck: the guard of one of its steps holds
ScanCanStep ==
    \/ pc = "call" /\ phase \in {"poll", "status"}
    \/ pc = "recv" /\ ~RecvGoesOn
    \/ pc = "recv" /\ RecvGoesOn /\ line # <<>>
    \/ pc = "recv" /\ RecvGoesOn /\ line = <<>>
    \/ pc = "ret" /\ phase \in {"poll", "status"}

\* C14: scanAllPumps visits 0x50..0x6F once each in ascending order, as
\* C14_ScanOrder says, and it terminates: in every state of a scan a step can
\* be taken, and every step of a scan lowers ScanMeasure, which cannot go
\* down for ever.
C14_ScanVisitsAllOnce ==
    /\ C14_ScanOrder
    /\ [](op = "scan" => ScanCanStep)
    /\ [][(op = "scan" /\ op' = "scan") => LexLess(ScanMeasure', ScanMeasure)]_vars

\* C14 witness: the poll of 0x52 returned true and the scan is inside the
\* receive of getPumpStatus(0x52)
C14_Witness ==
    /\ op = "scan"
    /\ phase = "status"
    /\ pc = "recv"
    /\ curAddr = 82
    /\ At(lastSent, 0) = 82

\* C15: pollPump returns true if and only if its poll frame was written and
\* the receiveData call that followed returned at least one byte, whatever
\* the bytes are.
C15_PollTrueIffAnyByte ==
    pollResult # <<>> =>
        (pollResult[1] <=> (lastSent # <<>> /\ At(lastSent, 1) = 129 /\ resp # <<>>))

\* C15 witness: pollPump(0x52) returned true on bytes that are no frame of
\* pump 0x52
C15_Witness ==
    /\ pollResult = <<TRUE>>
    /\ lastSent = <<82, 129, 250>>
    /\ resp = <<250, 80, 129>>

\* C16: in both revisions createPollPacket(address) returns exactly
\* [address, 0x81, 0xFA], for every address.
C16_PollPacketBothRevisions ==
    (op \in {"buildPoll", "buildPollRev1"} /\ ret # <<>>)
        => ret[1] = <<arg, 129, 250>>

\* this step calls createDataPacket: outside a receive every step sets
\* lastPacket, to the packet it built or to <<>>
DataBuilt == pc \in {"idle", "call"} /\ lastPacket' # <<>> /\ ~ByteArrives

\* C17: a step that calls createDataPacket moves txNumber by exactly one
\* (15 is followed by 1); every other step (poll and acknowledgement frames,
\* receiveData, parseResponse, connect, disconnect) leaves it unchanged.
C17_OnlyDataConsumesTx ==
    [][ IF DataBuilt
        THEN txNumber' = (IF txNumber = 15 THEN 1 ELSE txNumber + 1)
        ELSE txNumber' = txNumber ]_vars

\* C17 witness: testAddress polled, made one data exchange, acknowledged it
\* and received again; one transaction number was used
C17_Witness ==
    /\ op = "test"
    /\ phase = "textra"
    /\ pc = "ret"
    /\ lastSent = createAckPacket(curAddr, 1)
    /\ At(lastPacket, 1) = DataCtrl(1)
    /\ txNumber = 2

\* a pollPump or getPumpStatus call has ended in a failure on a connected
\* controller: send failure, empty response or undecodable response
ExchangeFailed ==
    /\ pc = "idle"
    /\ isConnected
    /\ \/ pollResult = <<FALSE>>
       \/ lastStatus # <<>> /\ (lastSent = <<>> \/ ~IsDecodable(resp))

\* this step is a pollPump or getPumpStatus call made by the caller
ExchangeCalled ==
    /\ pc = "idle"
    /\ ~ByteArrives
    /\ \/ op' \in {"poll", "status"}
       \/ op' = "none" /\ (pollResult' # <<>> \/ lastStatus' # <<>>)

\* this step is the pollPump call scanAllPumps makes after a poll that failed
ScanCalledAfterFailure ==
    /\ op = "scan"
    /\ pc = "call"
    /\ phase = "poll"
    /\ isConnected
    /\ pollResult = <<FALSE>>

\* C18: no step of a pollPump or getPumpStatus call changes isConnected or
\* serialPort, and a call made after a failed exchange (by the caller, or by
\* scanAllPumps for the next address) clears the buffers (nothing is left
\* unread on an open port) and either fails to send or writes the frame of
\* its address and starts a receive on a port that holds no byte unread.
C18_FailureLeavesSessionUsable ==
    [][ /\ (op \in {"poll", "status", "scan"} \/ ExchangeCalled)
              => isConnected' = isConnected /\ serialPort' = serialPort
        /\ ((ExchangeFailed /\ ExchangeCalled)
              \/ (ScanCalledAfterFailure /\ ~ByteArrives)) =>
              \/ /\ lastSent' = <<>>
                 /\ unread' = (IF PortOpen THEN 0 ELSE unread)
                 /\ pc' # "recv"
              \/ /\ lastSent' # <<>>
                 /\ PortOpen
                 /\ At(lastSent', 0) = curAddr'
                 /\ pc' = "recv"
                 /\ buffer' = <<>>
                 /\ unread' = 0
                 /\ line' = offered'
      ]_vars

\* C18 witness: the scan of a connected controller has polled the addresses
\* 0x51 and 0x53..0x6E, where no pump answers, and is inside the receive of
\* the poll of 0x6F
C18_Witness ==
    /\ isConnected
    /\ op = "scan"
    /\ phase = "poll"
    /\ pc = "recv"
    /\ curAddr = 111
    /\ At(lastSent, 0) = 111

\* this step is a createDataPacket call the caller makes itself
PacketOnly == pc = "idle" /\ pc' = "idle" /\ lastPacket' # <<>>

\* C19: while isConnected is false, getPumpStatus returns an invalid status,
\* pollPump returns false, sendData writes nothing, receiveData returns an
\* empty buffer at once, the transport is neither written nor read, and
\* txNumber does not change.  A createDataPacket call the caller makes
\* itself is none of these functions.
C19_NotConnectedNoTransport ==
    [][ (~isConnected /\ ~isConnected' /\ ~PacketOnly) =>
            /\ txNumber' = txNumber
            /\ line' = line
            /\ lastSent' = <<>>
            /\ lastPacket' = <<>>
            /\ pollResult' \in {<<>>, <<FALSE>>}
            /\ lastStatus' # <<>> => ~lastStatus'[1].isValid
            /\ pc = "recv" => (pc' = "ret" /\ resp' = <<>>)
            /\ pc = "idle" => pc' \in {"idle", "recv"}
      ]_vars

\* C19 witness: a controller that made one data exchange and was
\* disconnected has returned from getPumpStatus with the default status
C19_Witness ==
    /\ ~isConnected
    /\ pc = "idle"
    /\ lastStatus = <<DefaultStatus>>
    /\ lastSent = <<>>
    /\ txNumber = 2

\* both nibbles of every byte are decimal digits
IsBcd(bcd) == \A i \in 1..Len(bcd) : (bcd[i] % 16) <= 9 /\ (bcd[i] \div 16) <= 9

\* the number whose decimal digits are the nibbles of bcd, read left to right
RECURSIVE DigitsValue(_)
DigitsValue(bcd) ==
    IF bcd = <<>> THEN 0
    ELSE DigitsValue(SubSeq(bcd, 1, Len(bcd) - 1)) * 100
         + (bcd[Len(bcd)] \div 16) * 10 + (bcd[Len(bcd)] % 16)

\* C20: for every sequence of 1..4 bytes whose nibbles are all in 0..9,
\* bcdToDecimal returns the number whose decimal digits are the nibbles
\* read left to right.
C20_BcdToDecimal ==
    (op = "bcd" /\ ret # <<>> /\ Len(arg) \in 1..4 /\ IsBcd(arg))
        => ret[1] = U32(DigitsValue(arg))

\* C20 witness: 12 34 56 78 was converted to 12345678
C20_Witness ==
    /\ op = "bcd"
    /\ arg = <<18, 52, 86, 120>>
    /\ ret = <<U32(12345678)>>

\* r is a well-formed FILLING_INFO reply of pump a: a slave DATA frame with a
\* zero CRC residue, response type FILLING_INFO, four BCD bytes of amount and
\* four of volume
IsFillingReply(r, a) ==
    /\ Len(r) = 16
    /\ r[1] = a
    /\ CtrlCode(r[2]) = DATA
    /\ r[3] = 9
    /\ Shr(r[4], 4) = FILLING_INFO
    /\ IsBcd(SubSeq(r, 5, 12))
    /\ calculateCRC16(SubSeq(r, 1, 14)) = 0
    /\ r[15] = ETX
    /\ r[16] = STOP_FLAG

\* the filling exchange of testAddress has received its reply
FillingReceived ==
    /\ op = "test"
    /\ pc = "ret"
    /\ phase = "tfilling"

\* C21: a filling-information exchange sends a data frame with command
\* RETURN_FILLING_INFO, and a well-formed FILLING_INFO reply is decoded into
\* a FillingInfo with isValid true whose amount and volume are the BCD-decoded
\* payload fields.
C21_FillingInfoDecoded ==
    FillingReceived =>
        /\ \E tx \in 1..15 :
              lastSent = DataPacket(curAddr, RETURN_FILLING_INFO, 1, <<>>, tx)
        /\ IsFillingReply(resp, curAddr) =>
              /\ DefaultFillingInfo.isValid
              /\ DefaultFillingInfo.amount = bcdToDecimal(SubSeq(resp, 5, 8))
              /\ DefaultFillingInfo.volume = bcdToDecimal(SubSeq(resp, 9, 12))

\* C22: in the first revision too, the control byte of every data frame
\* built by createDataPacket is 0x80 | (txNum << 4) | 0x04, master flag set,
\* with a transaction number that advances from one data frame to the next.
C22_Rev1ControlByte ==
    (op = "buildRev1" /\ nData > 0) =>
        At(lastPacket, 1) = DataCtrl(ExpectedTx(nData))

\* no byte was delivered to the call: the transport still holds all it had
NoByteArrived == line = offered

Held == IF pc = "ret" THEN resp ELSE buffer

\* with a byte in the buffer, this step of the loop waited longer than the
\* quiet interval
SilentStep ==
    /\ pc = "recv"
    /\ Len(buffer) > 0
    /\ totalElapsed' > totalElapsed + QUIET_MS

\* C24: silence rule: once a byte has been received and no byte arrives for
\* longer than the quiet interval, receiveData returns the buffer accumulated
\* up to that point; a byte that arrives after such a silence is not appended.
C24_SilenceRule ==
    [][/\ SilentStep => Held' = buffer
       /\ (pc = "recv" /\ Len(buffer) > 0 /\ silenceElapsed > QUIET_MS)
             => (pc' = "ret" /\ resp' = buffer)]_vars

\* every byte the transport still holds arrives at once: no further gap is
\* left to the line
RestArrivesAtOnce == gaps = MaxGaps

\* C25: STOP_FLAG rule: with at least 8 bytes in the buffer and 0xFA the
\* last, receiveData returns the buffer only if no further byte arrives
\* during the confirmation delay; if one does, it keeps accumulating.
C25_StopFlagConfirmed ==
    (pc = "ret" /\ StopFlagSeen(resp) /\ RestArrivesAtOnce) => line = <<>>

\* C26: when the bytes delivered are k > 0 reply bytes followed by three or
\* more repeats of FA 50 81, receiveData truncates the buffer at the first
\* occurrence of the pattern and returns the k bytes that precede it.
C26_CollapseAtOffset ==
    (pc = "ret" /\ offered \in NoisyReplies /\ gaps = 0 /\ maxBytes >= 128)
        => \E e \in EchoReplies : offered = resp \o e

\* C27: for every pump address a, when the transport delivers FA a 81
\* repeated three or more times from offset 0 during an exchange with pump
\* a, receiveData returns exactly the three bytes FA a 81.
C27_CollapseAnyAddress ==
    (pc = "ret" /\ curAddr \in PUMP_ADDRESS_MIN..PUMP_ADDRESS_MAX
       /\ offered = AddressedEcho(curAddr) /\ gaps = 0 /\ maxBytes >= 9)
        => resp = <<STOP_FLAG, curAddr, 129>>

\* r is one well-formed DATA reply frame: address, control byte with code
\* DATA, length, opc and payload, a CRC with zero residue, ETX and STOP_FLAG
IsDataFrame(r) ==
    /\ Len(r) >= MIN_DATA_FRAME
    /\ CtrlCode(r[2]) = DATA
    /\ r[3] = Len(r) - 7
    /\ calculateCRC16(SubSeq(r, 1, Len(r) - 2)) = 0
    /\ r[Len(r) - 1] = ETX
    /\ r[Len(r)] = STOP_FLAG

\* C28: when the transport delivers exactly one well-formed DATA reply frame
\* of L >= 8 bytes back to back and nothing else, receiveData with
\* maxBytes >= L returns exactly those L bytes, whatever the payload and CRC.
C28_FrameRecovered ==
    (pc = "ret" /\ IsDataFrame(offered) /\ gaps = 0
       /\ maxBytes >= Len(offered))
        => resp = offered

\* the bytes the transport has delivered to the call so far
Delivered == SubSeq(offered, 1, Len(offered) - Len(line))

IsPrefixOf(s, t) == Len(s) <= Len(t) /\ s = SubSeq(t, 1, Len(s))

\* C29: at every point of receiveData the buffer holds at most maxBytes
\* bytes, and the returned buffer is a prefix of the byte sequence the
\* transport delivered during the call.
C29_BufferBoundedPrefix ==
    (pc \in {"recv", "ret"}) =>
        /\ Len(Held) <= maxBytes
        /\ IsPrefixOf(Held, Delivered)

\* C29 witness: a call with maxBytes 3 returned the first three bytes of a
\* longer stream
C29_Witness ==
    /\ pc = "ret"
    /\ maxBytes = 3
    /\ Len(offered) > 3
    /\ resp = SubSeq(offered, 1, 3)

\* C30: for every byte sequence of every length, parseResponse, the first
\* revision's parseStatusResponse and the pattern scan of receiveData read
\* only indices inside the buffer and return a value.
C30_DecodeInBounds ==
    ret # <<>> =>
        /\ ret[1].reads \subseteq 0..(Len(arg) - 1)
        /\ op \in {"decode", "decodeRev1"} =>
              /\ ret[1].value.isValid \in BOOLEAN
              /\ ret[1].value.address \in Byte
              /\ ret[1].value.status \in 0..15
        /\ op = "scan" => IsPrefixOf(ret[1].value, arg)

\* C30 witness: a 4-byte buffer whose length byte promises two data bytes
\* was decoded, invalid, from reads of its first two bytes and the printing
C30_Witness ==
    /\ op = "decode"
    /\ arg = <<82, 20, 2, 1>>
    /\ ret # <<>>
    /\ ~ret[1].value.isValid
    /\ ret[1].reads = 0..3

\* the frame r with STOP_FLAG as its last byte: r is f cut short by the
\* terminator, or f with another byte in the terminator's place
Terminated(r) ==
    IF r[Len(r)] = ETX THEN r \o <<STOP_FLAG>>
    ELSE Prefix(r, Len(r) - 1) \o <<STOP_FLAG>>

\* C31: a DATA/NOZZLE_STATUS reply with length >= 2, well-formed but for a
\* last byte that is not 0xFA, is still classified by parseResponse and
\* yields the same status, nozzleOn, rfTagSensed, errorFlag and isValid = true
\* as the same frame with the terminator present.
C31_MissingTerminatorTolerated ==
    (op = "parse" /\ ret # <<>> /\ Len(arg) >= 8
       /\ arg[Len(arg)] # STOP_FLAG /\ IsStatusReply(Terminated(arg))) =>
        LET whole == parseResponse(Terminated(arg))
        IN  /\ ret[1].isValid
            /\ whole.isValid
            /\ ret[1].status = whole.status
            /\ ret[1].nozzleOn = whole.nozzleOn
            /\ ret[1].rfTagSensed = whole.rfTagSensed
            /\ ret[1].errorFlag = whole.errorFlag

\* C31 witness: the status reply 52 14 02 01 64 crcLo crcHi 03, cut before
\* its STOP_FLAG, was decoded as status 4 with rfTagSensed and errorFlag
C31_Witness ==
    /\ op = "parse"
    /\ arg = Prefix(StatusFrame(82), 8)
    /\ ret # <<>>
    /\ ret[1].isValid
    /\ ret[1].status = 4
    /\ ret[1].rfTagSensed
    /\ ret[1].errorFlag
    /\ ~ret[1].nozzleOn

\* C32: the first revision's parseStatusResponse returns isValid = true for
\* every NOZZLE_STATUS DATA frame addr, ctrl, len >= 2, opc, payload, crcLo,
\* crcHi, 03, FA whose CRC residue over addr..crcHi is zero, and isValid =
\* false for every such frame in which a CRC byte is altered.
C32_Rev1CrcVerified ==
    (op = "parseStatus" /\ ret # <<>> /\ IsStatusReply(arg)) =>
        (ret[1].isValid <=> calculateCRC16(Prefix(arg, Len(arg) - 2)) = 0)

\* this step wrote a data frame to the transport completely
DataWritten == DataBuilt /\ lastSent' = lastPacket'

\* C33: txNumber advances only for data frames that are actually sent: a
\* step that writes a data frame completely advances it by one, and every
\* other step, an exchange whose sendData fails included, leaves it unchanged.
C33_TxAdvancesOnlyWhenSent ==
    [][ IF DataWritten
        THEN txNumber' = NextTx(txNumber)
        ELSE txNumber' = txNumber ]_vars

\* C34: whenever getPumpStatus(address) returns a status with isValid = true,
\* the status's address field equals the address that was requested (the
\* first byte of the data frame the call sent).
C34_ValidStatusHasRequestedAddress ==
    (lastStatus # <<>> /\ lastStatus[1].isValid) =>
        /\ lastSent # <<>>
        /\ lastStatus[1].address = lastSent[1]

\* the acknowledgement testAddress wrote after the reply to its status request
AckAfterStatus == op = "test" /\ phase = "textra" /\ lastSent # <<>>

\* C35: the acknowledgement that testAddress sends after the reply to its
\* status request carries, in the TX# field of its control byte, the
\* transaction number of that status request's data frame, on every call.
C35_AckCarriesRequestTx ==
    AckAfterStatus => CtrlTxNum(lastSent[2]) = CtrlTxNum(lastPacket[2])

(***************************************************************************)
(* Exchanges begun on a port that already holds unread bytes.              *)
(***************************************************************************)
\* bytes a connected, idle controller may have unread in its port: the tail
\* of a reply that receiveData left, a stray byte, a whole late frame
PendingBytes == { <<3, 250>>, <<238>>, StatusFrame(82) }

\* bytes that are still on their way to the port then
LateBytes == { <<>>, <<80, 18, 250>> }

\* a connected controller between two calls; arg holds the bytes pending in
\* the port
InitFlush ==
    /\ isConnected = TRUE
    /\ serialPort = "open"
    /\ txNumber = 1
    /\ lastPacket = <<>>
    /\ op = "none"
    /\ phase = "none"
    /\ pc = "idle"
    /\ curAddr = 0
    /\ arg \in PendingBytes
    /\ \E late \in LateBytes : line = arg \o late
    /\ unread = Len(arg)
    /\ offered = <<>>
    /\ buffer = <<>>
    /\ maxBytes = 0
    /\ timeoutMs = 0
    /\ totalElapsed = 0
    /\ silenceElapsed = 0
    /\ gaps = 0
    /\ resp = <<>>
    /\ lastSent = <<>>
    /\ pollResult = <<>>
    /\ lastStatus = <<>>
    /\ nData = 0
    /\ ret = <<>>

NextFlush ==
    \/ ClearBuffers
    \/ Arrive
    \/ PollPump
    \/ GetPumpStatus
    \/ RecvByte
    \/ RecvNoData
    \/ RecvReturn
    \/ PollReturn
    \/ StatusReturn

SpecFlush == InitFlush /\ [][NextFlush]_vars

\* the request code of the exchange in progress
ExchangeCode == IF phase = "poll" THEN POLL ELSE DATA

\* this step is a pollPump or getPumpStatus call that gets as far as its
\* receiveData call
ExchangeBegins ==
    /\ pc \in {"idle", "call"}
    /\ pc' = "recv"
    /\ phase' \in {"poll", "status"}

\* C36: in getPumpStatus and pollPump the input buffer is flushed before the
\* request is written and the receive begins: the bytes that were pending in
\* the port when the call began are dropped, the request is written, and what
\* the receive is offered is the bytes that had not reached the port yet
\* followed by what answers this request; the response the call evaluates is
\* a prefix of that, so it has no byte that was pending before the call.
C36_PendingNotEvaluated ==
    /\ [][ ExchangeBegins =>
              /\ lastSent' # <<>>
              /\ unread' = 0
              /\ offered' = line'
              /\ \E reply \in Replies(curAddr', ExchangeCode') :
                    line' = Drop(line, unread) \o reply
         ]_vars
    /\ []((phase \in {"poll", "status"} /\ pc \in {"recv", "ret"}) =>
              /\ Delivered \o line = offered
              /\ IsPrefixOf(Held, Delivered))

\* C36 witness: with bytes pending in the port before its first data
\* exchange, the controller has sent a status request and receiveData has
\* returned the complete status frame of the addressed pump
C36_Witness ==
    /\ arg \in PendingBytes
    /\ txNumber = 2
    /\ phase = "status"
    /\ pc = "ret"
    /\ resp = StatusFrame(curAddr)

\* C37: BCD round trip: for n in 1..4 and 0 <= v < 100^n,
\* bcdToDecimal(decimalToBcd(v, n)) = v; and for every sequence b of n bytes
\* whose nibbles are all in 0..9, decimalToBcd(bcdToDecimal(b), n) = b.
C37_BcdRoundTrip ==
    /\ (op = "toBcd" /\ ret # <<>> /\ arg.bytes \in 1..4
            /\ arg.value < 100^(arg.bytes))
          => bcdToDecimal(ret[1]) = U32(arg.value)
    /\ (op = "bcd" /\ ret # <<>> /\ Len(arg) \in 1..4 /\ IsBcd(arg))
          => decimalToBcd(ret[1], Len(arg)) = arg

\* C37 witness: decimalToBcd(12345678, 4) has returned 12 34 56 78
C37_Witness ==
    /\ op = "toBcd"
    /\ arg = [value |-> 12345678, bytes |-> 4]
    /\ ret = << <<18, 52, 86, 120>> >>

====
